---- MODULE Spec2Model ----
(***************************************************************************)
(* Verification model of the Stringer i18n helper (src/start.ts).          *)
(*                                                                         *)
(* Part 1 (SpecAlloc): the key allocator, addStringToBaseLanguage, on a    *)
(* nested locale document.                                                 *)
(* Part 2 (SpecAddKey): the stringer.addI18nKey command handler with its   *)
(* busy flag, the files it writes and the editor it edits; (SpecProjects): *)
(* the handler in a session over the editors of two projects.              *)
(* Part 3 (SpecCache): the locale caches, their loaders and the watcher    *)
(* that invalidates them.                                                  *)
(* Part 4: the pure functions.  (SpecResolve): the translation lookups;    *)
(* (SpecSync): the sync tracking of .stringer-sync.json; (SpecNormalize):  *)
(* the normalization of a selection and the generated t() call;            *)
(* (SpecExample): the handler on the example of the README.                *)
(* Part 5: loops and callbacks, step by step.  (SpecMint): the loops of    *)
(* nextGlobalLeafKey; (SpecReload): the reload entry points; (SpecNearest):*)
(* the lookup of the locales folder and its cache; (SpecBusy): the add-key *)
(* handler when every awaited host call returns; (SpecBase): the handler   *)
(* with any set of locale files in a directory; (SpecAlert): the           *)
(* out-of-sync notification; (SpecVue): the Vue translation binding;       *)
(* (SpecHash): generateKeyHash in the arithmetic of JavaScript.            *)
(***************************************************************************)
EXTENDS Integers, Sequences, FiniteSets, TLC

VARIABLES
    \* ---- Part 1: key allocator
    doc,        \* the locale document being mutated (baseLangJson)
    pre,        \* the document as it was before the last call
    call,       \* the last call: its arguments and what it returned
    ncalls      \* number of calls made so far

VARIABLES
    \* ---- Part 2: the add-key command and what it touches
    isProcessingCommand,    \* the busy flag
    inv,                    \* the invocations of stringer.addI18nKey
    activeEditor,           \* vscode.window.activeTextEditor (its file)
    workspaceFolders,       \* vscode.workspace.workspaceFolders
    cliConfigs,             \* ~/.stringer-cli.json: project -> config entry
    files,                  \* locale files on disk: dir -> lang -> content
    dirs,                   \* the locale directories that exist
    source,                 \* the source documents open in editors
    savedDir,               \* workspaceState stringer.localesDir.<root>
    projectContext,         \* the global project context
    activePreviewLanguage,
    localeWatcher,          \* the directory localeWatcher watches
    localeCache,            \* global cache: lang -> document
    projectContextCache,    \* locales dir -> per-project context
    justWrote               \* what the step just taken wrote, if it wrote

VARIABLES
    \* ---- Part 3: the watcher of the locale files
    watch       \* the notifications of localeWatcher and what followed them

VARIABLES
    \* ---- Part 4: the pure functions, each with the last call made of it
    lookup,     \* the last translation lookup and what each resolver returned
    sync,       \* the snapshot file .stringer-sync.json and the last status
    norm        \* the last selection normalized and the t() call generated

VARIABLES
    \* ---- Part 5: loops and callbacks, step by step
    mint,       \* a run of nextGlobalLeafKey: its loops and the ids it drew
    nearest,    \* localesFolderCache and the last lookup of a locales folder
    alert,      \* checkAndNotifySync: pendingSyncAlert, open notifications, timers
    vue,        \* a source document under add-key: its text and the declarations inserted
    hashing     \* generateKeyHash: the string, the loop index, hash, the result

allocVars == <<doc, pre, call, ncalls>>

fsVars == <<files, dirs>>

worldVars == <<workspaceFolders, cliConfigs>>

ctxVars == <<savedDir, projectContext, activePreviewLanguage, localeWatcher,
             localeCache>>

keyVars == <<isProcessingCommand, inv, activeEditor, source, justWrote>>

fnVars == <<lookup, sync, norm>>

stepVars == <<mint, nearest, alert, vue, hashing>>

\* The variables of Part 5 but one.
exceptMint == <<nearest, alert, vue, hashing>>

exceptNearest == <<mint, alert, vue, hashing>>

exceptAlert == <<mint, nearest, vue, hashing>>

exceptVue == <<mint, nearest, alert, hashing>>

exceptHashing == <<mint, nearest, alert, vue>>

vars == <<doc, pre, call, ncalls, isProcessingCommand, inv, activeEditor,
          workspaceFolders, cliConfigs, files, dirs, source, savedDir,
          projectContext, activePreviewLanguage, localeWatcher, localeCache,
          projectContextCache, justWrote, watch, lookup, sync, norm, mint,
          nearest,
          alert,
          vue,
          hashing>>

-----------------------------------------------------------------------------
(***************************************************************************)
(* Locale documents.  A JSON object tree is a function from key paths      *)
(* (non-empty sequences of property names) to OBJ, for a nested object, or *)
(* to a string.  The domain is prefix-closed, every proper prefix of a     *)
(* path of the domain maps to OBJ, and the root (the empty path) is an     *)
(* object that is not stored.                                              *)
(***************************************************************************)

\* Bounds of the model.
NumIds == 3         \* how many of the 10000 four-digit ids can be drawn
MaxCalls == 2       \* calls of addStringToBaseLanguage in one behaviour
MaxTries == 2       \* how many of the 500 random draws nextGlobalLeafKey makes

OBJ == "{}"

\* The four-digit ids of the model, in the order of the linear scan.
IdName == <<"0000", "0001", "0002", "0003", "0004", "0005">>

Ids == {IdName[i] : i \in 1..NumIds}

\* /^\d{4}$/.test(k)
IsNumericLeafKey(k) == \E i \in 1..Len(IdName) : IdName[i] = k

Texts == {"old", "new"}

EmptyDoc == << >>

Last(p) == p[Len(p)]

IsPrefixOf(p, q) == Len(p) <= Len(q) /\ SubSeq(q, 1, Len(p)) = p

IsStrictPrefixOf(p, q) == Len(p) < Len(q) /\ SubSeq(q, 1, Len(p)) = p

Has(d, p) == p \in DOMAIN d

IsString(d, p) == Has(d, p) /\ d[p] # OBJ

IsObject(d, p) == Has(d, p) /\ d[p] = OBJ

\* node[key] = value, where value is a string or a fresh object: whatever
\* hung below the path before is gone.
Assign(d, p, v) ==
    [q \in {r \in DOMAIN d : ~IsStrictPrefixOf(p, r)} \cup {p} |->
        IF q = p THEN v ELSE d[q]]

\* A document given by its leaves: every proper prefix becomes an object.
DocOf(leaves) ==
    LET paths == DOMAIN leaves
        inner == UNION {{SubSeq(p, 1, n) : n \in 1..(Len(p) - 1)} : p \in paths}
    IN  [q \in paths \cup inner |-> IF q \in paths THEN leaves[q] ELSE OBJ]

\* The used set: every 4-digit key of the whole tree whose value is not an
\* object.
collectAllNumericLeafKeys(d) ==
    {Last(p) : p \in {q \in DOMAIN d : IsNumericLeafKey(Last(q)) /\ d[q] # OBJ}}

\* The ids a call of nextGlobalLeafKey can return: any unused id (a random
\* draw that is not in the used set, or the first unused id of the scan).
\* With every id used the last loop never ends and nothing is returned.
nextGlobalLeafKey_anyId(used) == Ids

nextGlobalLeafKey(used) == Ids \ used

\* keyPath.split('.').filter(Boolean): a dotted key path is the sequence of
\* its segments, of which the empty ones are dropped.
RECURSIVE SplitFilter(_)
SplitFilter(keyPath) ==
    IF keyPath = << >> THEN << >>
    ELSE IF Head(keyPath) = "" THEN SplitFilter(Tail(keyPath))
    ELSE <<Head(keyPath)>> \o SplitFilter(Tail(keyPath))

\* container[part] = {}; container[part][prevKey] = prev
liftString_dropPrev(d, p, prevKey) == Assign(d, p, OBJ)

liftString(d, p, prevKey) == Assign(Assign(d, p, OBJ), Append(p, prevKey), d[p])

\* The first loop of addStringToBaseLanguage, from segment i on: a string on
\* the prefix path is lifted into a fresh object under a newly minted key, a
\* missing segment becomes an empty object.  The result is the set of the
\* outcomes the draws allow, each with the ids minted in order.
RECURSIVE liftStrings(_, _, _, _, _)
liftStrings(d, used, parts, i, minted) ==
    IF i > Len(parts)
    THEN {[doc |-> d, used |-> used, minted |-> minted]}
    ELSE LET p == SubSeq(parts, 1, i) IN
         IF IsString(d, p)
         THEN UNION {liftStrings(liftString(d, p, prevKey),
                                 used \cup {prevKey}, parts, i + 1,
                                 Append(minted, prevKey))
                        : prevKey \in nextGlobalLeafKey(used)}
         ELSE IF ~Has(d, p)
         THEN liftStrings(Assign(d, p, OBJ), used, parts, i + 1, minted)
         ELSE liftStrings(d, used, parts, i + 1, minted)

\* setDeepValue, from segment i on.
RECURSIVE setDeepValueFrom(_, _, _, _, _)
setDeepValueFrom(d, pathParts, leafKey, value, i) ==
    IF i > Len(pathParts) THEN d
    ELSE LET p == SubSeq(pathParts, 1, i)
             d1 == IF ~Has(d, p) THEN Assign(d, p, OBJ)
                   ELSE IF IsString(d, p)
                        THEN Assign(Assign(d, p, OBJ), Append(p, "0000"), d[p])
                        ELSE d
         IN  IF i < Len(pathParts)
             THEN setDeepValueFrom(d1, pathParts, leafKey, value, i + 1)
             ELSE Assign(d1, Append(p, leafKey), value)

setDeepValue(d, pathParts, leafKey, value) ==
    setDeepValueFrom(d, pathParts, leafKey, value, 1)

\* addStringToBaseLanguage(baseLangJson, keyPathPrefix, text): the set of its
\* possible results.  used is the used set collected at entry and minted the
\* ids minted by the call, the leaf key of the new text last.
addStringToBaseLanguage(baseLangJson, keyPathPrefix, text) ==
    LET parts == SplitFilter(keyPathPrefix)
        used0 == collectAllNumericLeafKeys(baseLangJson)
    IN  UNION {{[updated |-> setDeepValue(l.doc, parts, leafKey, text),
                 fullKeyPath |-> Append(keyPathPrefix, leafKey),
                 parts |-> parts,
                 text |-> text,
                 used |-> used0,
                 minted |-> Append(l.minted, leafKey)]
                    : leafKey \in nextGlobalLeafKey(l.used)}
                : l \in liftStrings(baseLangJson, used0, parts, 1, << >>)}

-----------------------------------------------------------------------------
(***************************************************************************)
(* The world of the add-key command: a multi-root workspace with two       *)
(* projects, their CLI config entries, their locale directories and the    *)
(* source files open in editors.                                           *)
(***************************************************************************)

MaxInvocations == 2     \* invocations of stringer.addI18nKey in a behaviour
MaxSessionKeys == 1     \* of them, the ones that run in a session of SpecProjects
MaxChanges == 2         \* changes made to the locale files from outside

Projects == {"A", "B"}

\* null and undefined, in the shape of the values they stand in for.
NoEditor == [root |-> "", rel |-> << >>]
NoFolder == ""
NoConfig == [outputDir |-> "", baseLanguage |-> ""]
NoDir == [root |-> "", rel |-> ""]
NoLang == ""
NoContext == [projectRoot |-> "", localesDir |-> NoDir, baseLanguage |-> NoLang]
NotFound == "<not found>"
\* localeWatcher has raised no notification: none is pending, none has been
\* handled (clean), and changes counts the changes made to the locale files.
NoNotification == [pending |-> FALSE, clean |-> FALSE, changes |-> 0]

\* The content of a locale file: missing, text that JSON.parse rejects, or
\* the JSON text of a document.
Absent == [kind |-> "absent", doc |-> << >>]
Invalid == [kind |-> "invalid", doc |-> << >>]
Json(d) == [kind |-> "json", doc |-> d]

\* The source files: their workspace folder and their path below it.
FileAB == [root |-> "A", rel |-> <<"a", "b.vue">>]
FileAX == [root |-> "A", rel |-> <<"x.vue">>]
FileBB == [root |-> "B", rel |-> <<"a", "b.vue">>]

SourceFiles == {FileAB, FileAX, FileBB}

\* path.resolve(projectRoot, outputDir): a locale directory of the model.
ResolveDir(projectRoot, outputDir) == [root |-> projectRoot, rel |-> outputDir]

LocaleDirs == {ResolveDir(p, "out") : p \in Projects}

\* The language tags of the model, in the order readdirSync lists their files.
LangOrder == <<"de", "en">>

Langs == {LangOrder[i] : i \in 1..Len(LangOrder)}

\* path.join(localesDir, `${lang}.json`)
LocalePath(localesDir, lang) == [dir |-> localesDir, lang |-> lang]

\* vscode.workspace.getWorkspaceFolder(uri) || workspaceFolders[0]
FolderOf(f) ==
    IF \E i \in 1..Len(workspaceFolders) : workspaceFolders[i] = f.root
    THEN f.root
    ELSE IF Len(workspaceFolders) > 0 THEN workspaceFolders[1] ELSE NoFolder

\* loadCliProjectConfig(projectRoot)
loadCliProjectConfig(projectRoot) == cliConfigs[projectRoot]

\* path.relative(basePath, filePath), as its segments
Relative(basePath, f) ==
    IF f.root = basePath THEN f.rel ELSE <<"..", f.root>> \o f.rel

\* A path segment with its extension stripped, split at the dots.
DotSegments(name) ==
    CASE name = "b.vue" -> <<"b">>
      [] name = "x.vue" -> <<"x">>
      [] name = "Header.vue" -> <<"Header">>
      [] OTHER          -> <<name>>

NoPrefix == <<"no prefix">>

\* relativePath.replace(/\\/g, '/').replace(/\.[^/.]+$/, '').split('/').join('.')
RECURSIVE JoinDots(_)
JoinDots(relativePath) ==
    IF Len(relativePath) = 1 THEN DotSegments(relativePath[1])
    ELSE (IF relativePath[1] = ".." THEN <<"", "", "">> ELSE <<relativePath[1]>>)
         \o JoinDots(Tail(relativePath))

\* generateKeyPath(filePath, basePath): null without a separator in the
\* relative path, else the relative path without its extension, the
\* directories joined by dots.
generateKeyPath(f, basePath) ==
    LET relativePath == Relative(basePath, f)
    IN  IF Len(relativePath) < 2 THEN NoPrefix ELSE JoinDots(relativePath)

\* fs.existsSync(path.join(dir, `${lang}.json`))
FileExists(fs, dir, lang) == fs[dir][lang].kind # "absent"

\* The locale files of a directory, as readdirSync(...).filter(isLocaleFileName)
\* lists them.
RECURSIVE LocaleFilesFrom(_, _, _)
LocaleFilesFrom(fs, dir, i) ==
    IF i > Len(LangOrder) THEN << >>
    ELSE (IF FileExists(fs, dir, LangOrder[i]) THEN <<LangOrder[i]>> ELSE << >>)
         \o LocaleFilesFrom(fs, dir, i + 1)

LocaleFiles(fs, ds, dir) == IF dir \in ds THEN LocaleFilesFrom(fs, dir, 1) ELSE << >>

\* containsLocaleFiles(dirPath)
containsLocaleFiles(fs, ds, dir) == dir \in ds /\ Len(LocaleFiles(fs, ds, dir)) >= 1

\* findLocalesFolderFromFile / checkLocalePatterns: the one locale directory
\* of the workspace root, when it holds a locale file.
findLocalesFolderFromFile(fs, ds, projectRoot) ==
    IF containsLocaleFiles(fs, ds, ResolveDir(projectRoot, "out"))
    THEN ResolveDir(projectRoot, "out")
    ELSE NoDir

\* JSON.parse(stripBOM(readFileSync(...))): the document, or a failure.
ParseFailed(content) == content.kind # "json"

\* loadLocale(lang) on a given cache: a cached language is kept, else the
\* file is read and, when it parses, cached.
loadLocale(cache, fs, ctx, lang) ==
    IF ctx = NoContext THEN cache
    ELSE IF lang \in DOMAIN cache THEN cache
    ELSE IF ParseFailed(fs[ctx.localesDir][lang]) THEN cache
    ELSE [l \in DOMAIN cache \cup {lang} |->
            IF l = lang THEN fs[ctx.localesDir][lang].doc ELSE cache[l]]

\* preloadLocales()
preloadLocales(cache, fs, ctx, activeLang) ==
    IF ctx = NoContext THEN cache
    ELSE LET c1 == loadLocale(cache, fs, ctx, ctx.baseLanguage)
         IN  IF activeLang # NoLang /\ activeLang # ctx.baseLanguage
             THEN loadLocale(c1, fs, ctx, activeLang)
             ELSE c1

\* The state ensureProjectContext reads and writes.
ContextState ==
    [savedDir |-> savedDir, projectContext |-> projectContext,
     activePreviewLanguage |-> activePreviewLanguage,
     localeWatcher |-> localeWatcher, localeCache |-> localeCache,
     watch |-> watch]

NoContextState ==
    [savedDir |-> [p \in Projects |-> NoDir], projectContext |-> NoContext,
     activePreviewLanguage |-> NoLang, localeWatcher |-> NoDir,
     localeCache |-> << >>, watch |-> NoNotification]

\* ensureProjectContext(editor) from the state st: what it returns (ok) and
\* the state it leaves.  The watcher is disposed and created anew: a
\* notification not yet delivered is lost with the disposed watcher.
ensureProjectContextFrom(st, ed) ==
    LET unchanged == [ok |-> FALSE, savedDir |-> st.savedDir,
                      projectContext |-> st.projectContext,
                      activePreviewLanguage |-> st.activePreviewLanguage,
                      localeWatcher |-> st.localeWatcher,
                      localeCache |-> st.localeCache,
                      watch |-> st.watch]
    IN
    IF ed = NoEditor THEN unchanged
    ELSE IF FolderOf(ed) = NoFolder THEN unchanged
    ELSE
    LET projectRoot == FolderOf(ed)
        config == loadCliProjectConfig(projectRoot)
        saved == st.savedDir[projectRoot]
        autoDetected == findLocalesFolderFromFile(files, dirs, projectRoot)
        localesDir == IF saved # NoDir /\ saved \in dirs THEN saved ELSE autoDetected
    IN
    IF localesDir = NoDir THEN unchanged
    ELSE
    LET localeFiles == LocaleFiles(files, dirs, localesDir)
        baseLanguage ==
            IF FileExists(files, localesDir, "en") THEN "en"
            ELSE IF Len(localeFiles) > 0 THEN localeFiles[1]
            ELSE IF config # NoConfig THEN config.baseLanguage ELSE "en"
        ctx == [projectRoot |-> projectRoot, localesDir |-> localesDir,
                baseLanguage |-> baseLanguage]
        active == IF FileExists(files, localesDir, baseLanguage) THEN baseLanguage
                  ELSE IF Len(localeFiles) > 0 THEN localeFiles[1]
                  ELSE baseLanguage
    IN  [ok |-> TRUE,
         savedDir |-> [st.savedDir EXCEPT ![projectRoot] = localesDir],
         projectContext |-> ctx,
         activePreviewLanguage |-> active,
         localeWatcher |-> localesDir,
         localeCache |-> preloadLocales(st.localeCache, files, ctx, active),
         watch |-> [st.watch EXCEPT !.pending = FALSE,
                                    !.clean = @ /\ localesDir = st.localeWatcher]]

ensureProjectContext(ed) == ensureProjectContextFrom(ContextState, ed)

-----------------------------------------------------------------------------
(***************************************************************************)
(* The per-project resolver.                                               *)
(***************************************************************************)

NoCtx == [localesDir |-> NoDir, baseLanguage |-> NoLang, localeData |-> << >>]

\* getOrCreateProjectContext(localesDir) on a given context map: the map
\* afterwards (the context is map[dir] when dir is in its domain).
getOrCreateProjectContext(cache, fs, ds, localesDir) ==
    IF localesDir \in DOMAIN cache THEN cache
    ELSE IF ~containsLocaleFiles(fs, ds, localesDir) THEN cache
    ELSE LET available == LocaleFiles(fs, ds, localesDir)
             baseLanguage == IF FileExists(fs, localesDir, "en") THEN "en"
                             ELSE available[1]
         IN  [d \in DOMAIN cache \cup {localesDir} |->
                IF d = localesDir
                THEN [localesDir |-> localesDir, baseLanguage |-> baseLanguage,
                      localeData |-> << >>]
                ELSE cache[d]]

\* loadLocaleForProject(ctx, lang): the context afterwards.
loadLocaleForProject(ctx, fs, lang) ==
    IF lang \in DOMAIN ctx.localeData THEN ctx
    ELSE IF ParseFailed(fs[ctx.localesDir][lang]) THEN ctx
    ELSE [ctx EXCEPT !.localeData =
            [l \in DOMAIN ctx.localeData \cup {lang} |->
                IF l = lang THEN fs[ctx.localesDir][lang].doc ELSE ctx.localeData[l]]]

\* The 4-digit keys of the object at path p that hold a string, and the first
\* of them as Object.keys lists them (the keys of the model in ascending order).
NumericStringKeys(d, p) ==
    {k \in {IdName[i] : i \in 1..Len(IdName)} : IsString(d, Append(p, k))}

FirstNumericStringKey(d, p) ==
    LET ks == NumericStringKeys(d, p)
    IN  IdName[CHOOSE i \in 1..Len(IdName) :
                 /\ IdName[i] \in ks
                 /\ \A j \in 1..(i - 1) : IdName[j] \notin ks]

\* const isRequestingSpecific4Digit = /^\d{4}$/.test(part)
isRequestingSpecific4Digit_never(part) == FALSE

isRequestingSpecific4Digit(part) == IsNumericLeafKey(part)

\* getValueByPath(obj, keyPath): the strict walk, from segment i on with node
\* at path p.
RECURSIVE getValueByPathFrom(_, _, _, _)
getValueByPathFrom(d, parts, i, p) ==
    IF i > Len(parts)
    THEN IF p # << >> /\ IsString(d, p) THEN d[p] ELSE NotFound
    ELSE IF (p = << >> \/ IsObject(d, p)) /\ Has(d, Append(p, parts[i]))
         THEN getValueByPathFrom(d, parts, i + 1, Append(p, parts[i]))
         ELSE NotFound

getValueByPath(d, keyPath) == getValueByPathFrom(d, SplitFilter(keyPath), 1, << >>)

\* getValueByPathLoose(obj, keyPath), from segment i on with node at path p.
RECURSIVE getValueByPathLooseFrom(_, _, _, _)
getValueByPathLooseFrom(d, parts, i, p) ==
    IF i > Len(parts)
    THEN IF p # << >> /\ IsString(d, p) THEN d[p] ELSE NotFound
    ELSE LET part == parts[i]
             nodeIsObject == p = << >> \/ IsObject(d, p)
         IN  IF nodeIsObject /\ Has(d, Append(p, part))
             THEN getValueByPathLooseFrom(d, parts, i + 1, Append(p, part))
             ELSE IF /\ i = Len(parts)
                     /\ nodeIsObject
                     /\ ~isRequestingSpecific4Digit(part)
                     /\ NumericStringKeys(d, p) # {}
                  THEN d[Append(p, FirstNumericStringKey(d, p))]
                  ELSE NotFound

getValueByPathLoose(d, keyPath) ==
    getValueByPathLooseFrom(d, SplitFilter(keyPath), 1, << >>)

\* getTranslationForProject(ctx, keyPath, preferredLang): the value returned,
\* after the loads the call makes.
getTranslationForProject(ctx, fs, keyPath, preferredLang) ==
    LET lang == IF preferredLang # NoLang THEN preferredLang
                ELSE IF activePreviewLanguage # NoLang THEN activePreviewLanguage
                ELSE ctx.baseLanguage
        c1 == loadLocaleForProject(ctx, fs, lang)
        c2 == IF lang # ctx.baseLanguage
              THEN loadLocaleForProject(c1, fs, ctx.baseLanguage) ELSE c1
        value == IF lang \in DOMAIN c2.localeData
                 THEN getValueByPathLoose(c2.localeData[lang], keyPath)
                 ELSE NotFound
    IN  IF value # NotFound /\ value # "" THEN value
        ELSE IF ctx.baseLanguage \in DOMAIN c2.localeData
             THEN getValueByPathLoose(c2.localeData[ctx.baseLanguage], keyPath)
             ELSE NotFound

\* A value the resolvers take for a hit: `if (value) return value`.
Truthy(v) == v # NotFound /\ v # ""

\* getTranslation(keyPath) on the global project context ctx and the global
\* cache: the value returned.  The last resort tries the loaded languages in
\* the order of Object.keys(localeCache).
getTranslation(ctx, cache, activeLang, keyPath) ==
    LET lang == IF activeLang # NoLang THEN activeLang ELSE ctx.baseLanguage
        strict(l) == IF l \in DOMAIN cache THEN getValueByPath(cache[l], keyPath)
                     ELSE NotFound
        loose(l) == IF l \in DOMAIN cache THEN getValueByPathLoose(cache[l], keyPath)
                    ELSE NotFound
        any(l) == IF Truthy(strict(l)) THEN strict(l) ELSE loose(l)
        hits == {i \in 1..Len(LangOrder) :
                    LangOrder[i] \in DOMAIN cache /\ any(LangOrder[i]) # NotFound}
    IN  IF ctx = NoContext THEN NotFound
        ELSE IF Truthy(strict(lang)) THEN strict(lang)
        ELSE IF Truthy(loose(lang)) THEN loose(lang)
        ELSE IF Truthy(strict(ctx.baseLanguage)) THEN strict(ctx.baseLanguage)
        ELSE IF Truthy(loose(ctx.baseLanguage)) THEN loose(ctx.baseLanguage)
        ELSE IF hits # {}
             THEN any(LangOrder[CHOOSE i \in hits : \A j \in hits : i <= j])
             ELSE NotFound

\* The loads of a lookup in decorateEditor: the preview language and the
\* base language of the context.
loadForLookup(ctx, fs, activeLang) ==
    LET lang == IF activeLang # NoLang THEN activeLang ELSE ctx.baseLanguage
        c1 == loadLocaleForProject(ctx, fs, lang)
    IN  IF lang # ctx.baseLanguage
        THEN loadLocaleForProject(c1, fs, ctx.baseLanguage) ELSE c1

\* decorateEditor(editor) in the state st with the per-project contexts pcc:
\* the caches afterwards.  The keys of the file are looked up in the context
\* of the locales folder of its workspace root, else, when the global project
\* context is of the same root, in a context that wraps localeCache.  The
\* folder is looked up anew: the memo localesFolderCache holds no documents
\* and is cleared together with the contexts.  Every source file of the model
\* holds a key to look up.
decorateEditor(ed, st, pcc, fs, ds) ==
    LET same == [projectContextCache |-> pcc, localeCache |-> st.localeCache]
        workspaceRoot == FolderOf(ed)
        localesDir == findLocalesFolderFromFile(fs, ds, workspaceRoot)
        cache1 == IF localesDir = NoDir THEN pcc
                  ELSE getOrCreateProjectContext(pcc, fs, ds, localesDir)
    IN  IF ed = NoEditor \/ workspaceRoot = NoFolder THEN same
        ELSE IF localesDir # NoDir /\ localesDir \in DOMAIN cache1
        THEN [projectContextCache |->
                [cache1 EXCEPT ![localesDir] =
                    loadForLookup(@, fs, st.activePreviewLanguage)],
              localeCache |-> st.localeCache]
        ELSE IF /\ st.projectContext # NoContext
                /\ st.projectContext.projectRoot = workspaceRoot
        THEN [projectContextCache |-> pcc,
              localeCache |->
                loadForLookup([localesDir |-> st.projectContext.localesDir,
                               baseLanguage |-> st.projectContext.baseLanguage,
                               localeData |-> st.localeCache],
                              fs, st.activePreviewLanguage).localeData]
        ELSE same

-----------------------------------------------------------------------------
(***************************************************************************)
(* The stringer.addI18nKey handler.  An invocation runs from await to      *)
(* await; pc names the await it is suspended at.                           *)
(***************************************************************************)

Invocations == 1..MaxInvocations

NoPath == [dir |-> NoDir, lang |-> NoLang]

NoSnapshot == [files |-> << >>, dirs |-> {}]

NewInvocation ==
    [pc |-> "new", file |-> NoEditor, text |-> "", root |-> NoFolder,
     path |-> NoPath, key |-> << >>, written |-> {}, edited |-> FALSE,
     outcome |-> "none", msg |-> "none", before |-> NoSnapshot,
     after |-> NoSnapshot]

\* The awaits an invocation can be suspended at.
Suspended == {"awaitCtx", "awaitPrompt", "awaitEdit", "awaitDecl"}

InFlight == {i \in Invocations : inv[i].pc \in Suspended}

Snapshot(fs, ds) == [files |-> fs, dirs |-> ds]

\* The handler returns (or throws) and its finally block has run.
Ended(h, outcome, msg, fs, ds) ==
    [h EXCEPT !.pc = "done", !.outcome = outcome, !.msg = msg,
              !.after = Snapshot(fs, ds)]

\* fs.writeFileSync(path, JSON.stringify(document, null, 2))
WriteFile(fs, path, document) ==
    [fs EXCEPT ![path.dir][path.lang] = Json(document)]

\* baseJson = JSON.parse(stripBOM(readFileSync(baseLangPath))), or the catch
\* branch that reports invalid JSON and returns.
parseBaseJson_swallow(content) == Json(content.doc)

parseBaseJson(content) == content

\* if (isProcessingCommand) return
IsBusy_never(flag) == FALSE

IsBusy(flag) == flag

\* The handler from the choice of the locales directory to the await of the
\* source edit: the outcomes, one per result of addStringToBaseLanguage.
\* ctx is the global project context at that point.  When the call has no
\* result (nextGlobalLeafKey finds every id used and its last loop spins) the
\* handler stays inside it, at "minting".
WriteSegment(h, ctx, fs, ds) ==
    LET config == loadCliProjectConfig(h.root)
        localesDir == IF ctx # NoContext THEN ctx.localesDir
                      ELSE ResolveDir(h.root, config.outputDir)
        ds1 == ds \cup {localesDir}
        baseLanguage == IF config # NoConfig THEN config.baseLanguage
                        ELSE IF ctx # NoContext THEN ctx.baseLanguage ELSE "en"
        baseLangPath == LocalePath(localesDir, baseLanguage)
        created == ~FileExists(fs, localesDir, baseLanguage)
        fs1 == IF created THEN WriteFile(fs, baseLangPath, EmptyDoc) ELSE fs
        h1 == [h EXCEPT !.path = baseLangPath,
                        !.written = IF created THEN {baseLangPath} ELSE {}]
        baseJson == parseBaseJson(fs1[localesDir][baseLanguage])
        keyPathPrefix == generateKeyPath(h.file, h.root)
    IN  IF baseJson.kind # "json"
        THEN {[h |-> Ended(h1, "invalidJson", "error: invalid JSON", fs1, ds1),
               files |-> fs1, dirs |-> ds1, wrote |-> FALSE]}
        ELSE IF keyPathPrefix = NoPrefix
        THEN {[h |-> Ended(h1, "noPrefix", "error: cannot derive key path", fs1, ds1),
               files |-> fs1, dirs |-> ds1, wrote |-> FALSE]}
        ELSE IF addStringToBaseLanguage(baseJson.doc, keyPathPrefix, h.text) = {}
        THEN {[h |-> [h1 EXCEPT !.pc = "minting"],
               files |-> fs1, dirs |-> ds1, wrote |-> FALSE]}
        ELSE {[h |-> [h1 EXCEPT !.pc = "awaitEdit", !.key = r.fullKeyPath,
                                !.written = @ \cup {baseLangPath}],
               files |-> WriteFile(fs1, baseLangPath, r.updated),
               dirs |-> ds1, wrote |-> TRUE]
                : r \in addStringToBaseLanguage(baseJson.doc, keyPathPrefix, h.text)}

\* What a step that wrote the base-language file leaves in justWrote.
NothingWritten == [path |-> NoPath, key |-> << >>, text |-> ""]

JustWritten(o) ==
    IF o.wrote THEN [path |-> o.h.path, key |-> o.h.key, text |-> o.h.text]
    ELSE NothingWritten

\* The selections of the model: a text, or the empty selection.
Selections == {"", "new"}

\* The command is invoked while an earlier invocation is in flight.
InvokeDropped(i) ==
    /\ inv[i].pc = "new"
    /\ \A j \in 1..(i - 1) : inv[j].pc # "new"
    /\ IsBusy(isProcessingCommand)
    /\ inv' = [inv EXCEPT ![i].pc = "dropped"]
    /\ justWrote' = NothingWritten
    /\ UNCHANGED <<isProcessingCommand, activeEditor, source, worldVars, fsVars,
                   ctxVars, projectContextCache, allocVars, watch, fnVars, stepVars>>

\* The command is invoked with a selection and runs to its first await, or
\* to its end.
InvokeWith(i, selectedText) ==
    /\ inv[i].pc = "new"
    /\ \A j \in 1..(i - 1) : inv[j].pc # "new"
    /\ ~IsBusy(isProcessingCommand)
    /\  LET h0 == [inv[i] EXCEPT !.file = activeEditor, !.text = selectedText,
                                 !.before = Snapshot(files, dirs)]
        IN
        IF activeEditor = NoEditor
        THEN /\ inv' = [inv EXCEPT ![i] = Ended(h0, "noEditor", "none", files, dirs)]
             /\ isProcessingCommand' = FALSE
             /\ justWrote' = NothingWritten
             /\ UNCHANGED fsVars
        ELSE IF selectedText = ""
        THEN /\ inv' = [inv EXCEPT ![i] =
                        Ended(h0, "emptySelection", "info: select a string", files, dirs)]
             /\ isProcessingCommand' = FALSE
             /\ justWrote' = NothingWritten
             /\ UNCHANGED fsVars
        ELSE IF FolderOf(activeEditor) = NoFolder
        THEN /\ inv' = [inv EXCEPT ![i] = [h0 EXCEPT !.pc = "awaitPrompt"]]
             /\ isProcessingCommand' = TRUE
             /\ justWrote' = NothingWritten
             /\ UNCHANGED fsVars
        ELSE LET h1 == [h0 EXCEPT !.root = FolderOf(activeEditor)] IN
             IF loadCliProjectConfig(h1.root) = NoConfig
             THEN /\ inv' = [inv EXCEPT ![i] = [h1 EXCEPT !.pc = "awaitCtx"]]
                  /\ isProcessingCommand' = TRUE
                  /\ justWrote' = NothingWritten
                  /\ UNCHANGED fsVars
             ELSE \E o \in WriteSegment(h1, projectContext, files, dirs) :
                    /\ inv' = [inv EXCEPT ![i] = o.h]
                    /\ isProcessingCommand' = (o.h.pc # "done")
                    /\ files' = o.files
                    /\ dirs' = o.dirs
                    /\ justWrote' = JustWritten(o)
    /\ UNCHANGED <<activeEditor, source, worldVars, ctxVars, projectContextCache,
                   allocVars, watch, fnVars, stepVars>>

Invoke(i) == \E selectedText \in Selections : InvokeWith(i, selectedText)

\* await ensureProjectContext(editor) returns to an invocation without a CLI
\* config entry.
ResumeCtx(i) ==
    /\ inv[i].pc = "awaitCtx"
    /\ LET e == ensureProjectContext(inv[i].file) IN
        /\ savedDir' = e.savedDir
        /\ projectContext' = e.projectContext
        /\ activePreviewLanguage' = e.activePreviewLanguage
        /\ localeWatcher' = e.localeWatcher
        /\ localeCache' = e.localeCache
        /\ watch' = e.watch
        /\ IF ~e.ok \/ e.projectContext = NoContext
           THEN /\ inv' = [inv EXCEPT ![i].pc = "awaitPrompt"]
                /\ justWrote' = NothingWritten
                /\ UNCHANGED <<isProcessingCommand, fsVars>>
           ELSE \E o \in WriteSegment(inv[i], e.projectContext, files, dirs) :
                    /\ inv' = [inv EXCEPT ![i] = o.h]
                    /\ isProcessingCommand' = (o.h.pc # "done")
                    /\ files' = o.files
                    /\ dirs' = o.dirs
                    /\ justWrote' = JustWritten(o)
    /\ UNCHANGED <<activeEditor, source, worldVars, projectContextCache, allocVars, fnVars, stepVars>>

\* await promptOpenWorkspaceFolder() returns; the handler returns.
ResumePrompt(i) ==
    /\ inv[i].pc = "awaitPrompt"
    /\ inv' = [inv EXCEPT ![i] =
                Ended(inv[i], IF inv[i].root = NoFolder THEN "noFolder" ELSE "noContext",
                      "prompt: open a folder", files, dirs)]
    /\ isProcessingCommand' = FALSE
    /\ justWrote' = NothingWritten
    /\ UNCHANGED <<activeEditor, source, worldVars, fsVars, ctxVars,
                   projectContextCache, allocVars, watch, fnVars, stepVars>>

\* The results of editor.edit: applied, not applied (it resolves to false),
\* or rejected with an error.
EditResults == {"applied", "rejected", "thrown"}

\* The source document after the edit that replaces the selection by the
\* call expression t('<fullKeyPath>').
Replaced(src, f, fullKeyPath) ==
    [src EXCEPT ![f].calls = Append(@, fullKeyPath)]

\* await withEdit(editor, ...) returns: the result of editor.edit is not
\* looked at; an error leaves through the finally block.
ResumeEdit(i) ==
    /\ inv[i].pc = "awaitEdit"
    /\ \E result \in EditResults :
        /\ source' = IF result = "applied"
                     THEN Replaced(source, inv[i].file, inv[i].key) ELSE source
        /\ IF result = "thrown"
           THEN /\ inv' = [inv EXCEPT ![i] =
                            Ended(inv[i], "threw", "none", files, dirs)]
                /\ isProcessingCommand' = FALSE
           ELSE /\ inv' = [inv EXCEPT ![i].pc = "awaitDecl",
                                      ![i].edited = (result = "applied")]
                /\ UNCHANGED isProcessingCommand
    /\ justWrote' = NothingWritten
    /\ UNCHANGED <<activeEditor, worldVars, fsVars, ctxVars, projectContextCache,
                   allocVars, watch, fnVars, stepVars>>

\* await ensureVueTDeclaration(editor) returns (the declaration is inserted
\* when the document has none) and the handler runs to its end.
ResumeDecl(i) ==
    /\ inv[i].pc = "awaitDecl"
    /\ \E result \in EditResults :
        /\ source' = IF result = "applied"
                     THEN [source EXCEPT ![inv[i].file].decl = TRUE] ELSE source
        /\ inv' = [inv EXCEPT ![i] =
                    Ended(inv[i], IF result = "thrown" THEN "threw" ELSE "added",
                          "none", files, dirs)]
    /\ isProcessingCommand' = FALSE
    /\ justWrote' = NothingWritten
    /\ UNCHANGED <<activeEditor, worldVars, fsVars, ctxVars, projectContextCache,
                   allocVars, watch, fnVars, stepVars>>

\* onDidChangeActiveTextEditor: another editor becomes active, the global
\* project context is initialised for it and, when that succeeded, the editor
\* is decorated.
ChangeActiveTextEditor(ed) ==
    /\ ed # activeEditor
    /\ activeEditor' = ed
    /\ LET e == ensureProjectContext(ed)
           d == IF e.ok THEN decorateEditor(ed, e, projectContextCache, files, dirs)
                ELSE [projectContextCache |-> projectContextCache,
                      localeCache |-> e.localeCache]
       IN
        /\ savedDir' = e.savedDir
        /\ projectContext' = e.projectContext
        /\ activePreviewLanguage' = e.activePreviewLanguage
        /\ localeWatcher' = e.localeWatcher
        /\ watch' = e.watch
        /\ localeCache' = d.localeCache
        /\ projectContextCache' = d.projectContextCache
    /\ justWrote' = NothingWritten
    /\ UNCHANGED <<isProcessingCommand, inv, source, worldVars, fsVars, allocVars, fnVars, stepVars>>

\* onDidChangeTextDocument for the document of the active editor (the user
\* types, or an edit was applied): refreshActiveEditorDecorations().
DecorateEditor ==
    /\ activeEditor # NoEditor
    /\ LET d == decorateEditor(activeEditor, ContextState, projectContextCache,
                               files, dirs)
       IN  /\ projectContextCache' = d.projectContextCache
           /\ localeCache' = d.localeCache
    /\ justWrote' = NothingWritten
    /\ UNCHANGED <<isProcessingCommand, inv, activeEditor, source, worldVars, fsVars,
                   savedDir, projectContext, activePreviewLanguage, localeWatcher,
                   allocVars, watch, fnVars, stepVars>>

\* The state of the command and its world before anything has happened:
\* activate() found no active editor.
ConfigA == [outputDir |-> "out", baseLanguage |-> "en"]
ConfigB == [outputDir |-> "out", baseLanguage |-> "de"]

NoFiles == [d \in LocaleDirs |-> [l \in Langs |-> Absent]]

\* The pure functions have not been called.
NoLookup == [done |-> FALSE, entry |-> "", keyPath |-> << >>, preferred |-> NoLang,
             base |-> NoLang, loaded |-> << >>, value |-> NotFound]

\* .stringer-sync.json is missing; checkSyncStatus has returned nothing.
NoSyncFile == [kind |-> "absent", keys |-> << >>]

NoStatus == [null |-> TRUE, inSync |-> FALSE, modifiedKeys |-> {}, newKeys |-> {},
             removedKeys |-> {}]

NoSyncCheck == [file |-> NoSyncFile, done |-> FALSE, status |-> NoStatus,
                base |-> Absent, snapshot |-> NoSyncFile,
                current |-> << >>, stored |-> << >>]

\* A normalization result, and null.
NoResult == [null |-> TRUE, normalizedText |-> << >>, params |-> << >>,
             originalParams |-> << >>, hasAdvancedPatterns |-> FALSE]

NoNormalization == [done |-> FALSE, rawText |-> << >>, context |-> "",
                    result |-> NoResult, generated |-> FALSE, keyPath |-> << >>,
                    expr |-> << >>]

\* nextGlobalLeafKey is not running.
NoMint == [used |-> {}, phase |-> "idle", tries |-> 0, i |-> 0, k |-> "",
           draws |-> << >>]

\* null, for the path of a folder; no locales folder has been looked up.
NoFolderPath == << >>

NoNearest == [win32 |-> FALSE, localeDirs |-> {}, localesFolderCache |-> << >>,
              done |-> FALSE, filePath |-> << >>, workspaceRoot |-> << >>,
              found |-> << >>]

\* No change event of the base-language file has been handled: the state of
\* pendingSyncAlert and of the notifications after activation.
NoAlert == [pendingSyncAlert |-> FALSE, asking |-> 0, aligning |-> 0,
            timers |-> {}, now |-> 0, answered |-> FALSE, answeredAt |-> 0,
            events |-> 0, suppressed |-> 0]

\* No document has been edited by add-key.
NoVue == [filePath |-> << >>, text |-> << >>, asked |-> << >>, adds |-> 0,
          inserted |-> 0]

\* generateKeyHash has not run: the empty string, before the loop.  A Number
\* is kept as hi * 2^16 + lo with lo in 0..2^16 - 1, so that no product
\* leaves the integers of the model checker.
NoHashing == [value |-> << >>, i |-> 0, hash |-> [hi |-> 0, lo |-> 5381],
              exact |-> TRUE, wrapped |-> FALSE, out |-> << >>, done |-> FALSE]

IdleSteps ==
    /\ mint = NoMint
    /\ nearest = NoNearest
    /\ alert = NoAlert
    /\ vue = NoVue
    /\ hashing = NoHashing

IdleFn ==
    /\ IdleSteps
    /\ lookup = NoLookup
    /\ sync = NoSyncCheck
    /\ norm = NoNormalization

IdleAddKey ==
    /\ isProcessingCommand = FALSE
    /\ inv = [i \in Invocations |-> NewInvocation]
    /\ activeEditor = NoEditor
    /\ workspaceFolders = << >>
    /\ cliConfigs = [p \in Projects |-> NoConfig]
    /\ files = NoFiles
    /\ dirs = {}
    /\ source = [f \in SourceFiles |-> [calls |-> << >>, decl |-> FALSE]]
    /\ savedDir = [p \in Projects |-> NoDir]
    /\ projectContext = NoContext
    /\ activePreviewLanguage = NoLang
    /\ localeWatcher = NoDir
    /\ localeCache = << >>
    /\ projectContextCache = << >>
    /\ justWrote = NothingWritten
    /\ watch = NoNotification

IdleAlloc ==
    /\ doc = EmptyDoc
    /\ pre = EmptyDoc
    /\ call = [updated |-> EmptyDoc, fullKeyPath |-> << >>, parts |-> << >>,
               text |-> "", used |-> {}, minted |-> << >>]
    /\ ncalls = 0

\* The worlds a behaviour of the command starts in, given the contents the
\* base-language file of project A can have.
WorldWith(baseFilesOfA) ==
    /\ workspaceFolders \in {<< >>, <<"A", "B">>}
    /\ cliConfigs \in {[p \in Projects |-> IF p = "A" THEN ConfigA ELSE cb]
                          : cb \in {NoConfig, ConfigB}}
    /\ \E a \in baseFilesOfA,
          b \in {Absent, Json(EmptyDoc)} :
         files = [NoFiles EXCEPT ![ResolveDir("A", "out")]["en"] = a,
                                 ![ResolveDir("B", "out")]["de"] = b]
    /\ dirs = {d \in LocaleDirs : \E l \in Langs : FileExists(files, d, l)}
    /\ source = [f \in SourceFiles |-> [calls |-> << >>, decl |-> FALSE]]

InitWorld == WorldWith({Absent, Invalid, Json(DocOf(<<"a", "b">> :> "old"))})

\* The state after activate(): the global project context has been
\* initialised for the editor that was active, if any, and the editor has
\* been decorated.
Activated(ed) ==
    /\ activeEditor = ed
    /\ LET e == ensureProjectContextFrom(NoContextState, ed)
           d == decorateEditor(ed, e, << >>, files, dirs)
       IN
        /\ savedDir = e.savedDir
        /\ projectContext = e.projectContext
        /\ activePreviewLanguage = e.activePreviewLanguage
        /\ localeWatcher = e.localeWatcher
        /\ watch = e.watch
        /\ localeCache = d.localeCache
        /\ projectContextCache = d.projectContextCache
    /\ isProcessingCommand = FALSE
    /\ inv = [i \in Invocations |-> NewInvocation]
    /\ justWrote = NothingWritten

\* SpecAddKey: invocations of the command on the editor that is active.
InitAddKey ==
    /\ IdleAlloc
    /\ IdleFn
    /\ InitWorld
    /\ \E ed \in SourceFiles \cup {NoEditor} : Activated(ed)

NextAddKey ==
    \/ \E i \in Invocations : InvokeDropped(i)
    \/ \E i \in Invocations : Invoke(i)
    \/ \E i \in Invocations : ResumeCtx(i)
    \/ \E i \in Invocations : ResumePrompt(i)
    \/ \E i \in Invocations : ResumeEdit(i)
    \/ \E i \in Invocations : ResumeDecl(i)

SpecAddKey == InitAddKey /\ [][NextAddKey]_vars

\* SpecProjects: the command in a session in which editors of both projects
\* become active and their translations are looked up.  The invocations run
\* one after the other.
InitProjects ==
    /\ IdleAlloc
    /\ IdleFn
    /\ InitWorld
    /\ workspaceFolders # << >>
    /\ files[ResolveDir("A", "out")]["en"] # Invalid
    /\ Activated(NoEditor)

NextProjects ==
    \/ \E i \in 1..MaxSessionKeys : Invoke(i)
    \/ \E i \in 1..MaxSessionKeys : ResumeCtx(i)
    \/ \E i \in 1..MaxSessionKeys : ResumePrompt(i)
    \/ \E i \in 1..MaxSessionKeys : ResumeEdit(i)
    \/ \E i \in 1..MaxSessionKeys : ResumeDecl(i)
    \/ \E ed \in SourceFiles : ChangeActiveTextEditor(ed)
    \/ DecorateEditor

SpecProjects == InitProjects /\ [][NextProjects]_vars

\* SpecExample: the example of the README.  components/Header.vue of project
\* A is the active editor, the base-language file en.json is empty or is yet
\* to be created, and the text selected is "Welcome to our app".
FileCH == [root |-> "A", rel |-> <<"components", "Header.vue">>]

ExampleText == "Welcome to our app"

InitExample ==
    /\ IdleAlloc
    /\ IdleFn
    /\ workspaceFolders = <<"A", "B">>
    /\ cliConfigs = [p \in Projects |-> IF p = "A" THEN ConfigA ELSE NoConfig]
    /\ \E a \in {Absent, Json(EmptyDoc)} :
         files = [NoFiles EXCEPT ![ResolveDir("A", "out")]["en"] = a]
    /\ dirs \in {{}, {ResolveDir("A", "out")}}
    /\ FileExists(files, ResolveDir("A", "out"), "en") => dirs # {}
    /\ source = [f \in SourceFiles \cup {FileCH} |-> [calls |-> << >>, decl |-> FALSE]]
    /\ Activated(FileCH)

InvokeExample(i) == InvokeWith(i, ExampleText)

NextExample ==
    \/ \E i \in Invocations : InvokeExample(i)
    \/ \E i \in Invocations : ResumeEdit(i)
    \/ \E i \in Invocations : ResumeDecl(i)

SpecExample == InitExample /\ [][NextExample]_vars

-----------------------------------------------------------------------------
(***************************************************************************)
(* SpecCache: the locale files change on disk, localeWatcher notifies, and *)
(* editors are activated and decorated in between.                         *)
(***************************************************************************)

\* clearAllProjectContextCaches(): projectContextCache.clear()
clearAllProjectContextCaches_keep(cache) == cache

clearAllProjectContextCaches(cache) == << >>

\* What a locale file can be changed to from outside.
Contents == {Absent, Invalid} \cup {Json(DocOf(<<"a", "b">> :> t)) : t \in Texts}

\* A locale file is changed, created or deleted on disk; localeWatcher
\* raises a notification when the file is in the directory it watches.
FileChange(dir, lang, content) ==
    /\ watch.changes < MaxChanges
    /\ content # files[dir][lang]
    /\ content # Absent \/ dir \in dirs
    /\ files' = [files EXCEPT ![dir][lang] = content]
    /\ dirs' = dirs \cup {dir}
    /\ watch' = IF dir = localeWatcher
                THEN [pending |-> TRUE, clean |-> FALSE,
                      changes |-> watch.changes + 1]
                ELSE [watch EXCEPT !.changes = @ + 1]
    /\ justWrote' = NothingWritten
    /\ UNCHANGED <<isProcessingCommand, inv, activeEditor, source, worldVars,
                   ctxVars, projectContextCache, allocVars, fnVars, stepVars>>

\* The reload handler of localeWatcher (onDidChange, onDidCreate,
\* onDidDelete): both caches are emptied, the global cache is preloaded and
\* the active editor is decorated.
WatcherReload ==
    /\ watch.pending
    /\ LET st == [ContextState EXCEPT !.localeCache =
                    preloadLocales(<< >>, files, projectContext,
                                   activePreviewLanguage)]
           d == decorateEditor(activeEditor, st,
                               clearAllProjectContextCaches(projectContextCache),
                               files, dirs)
       IN  /\ localeCache' = d.localeCache
           /\ projectContextCache' = d.projectContextCache
    /\ watch' = [watch EXCEPT !.pending = FALSE, !.clean = TRUE]
    /\ justWrote' = NothingWritten
    /\ UNCHANGED <<isProcessingCommand, inv, activeEditor, source, worldVars, fsVars,
                   savedDir, projectContext, activePreviewLanguage, localeWatcher,
                   allocVars, fnVars, stepVars>>

InitCache ==
    /\ IdleAlloc
    /\ IdleFn
    /\ InitWorld
    /\ workspaceFolders # << >>
    /\ \E ed \in {FileAB, FileBB} : Activated(ed)

NextCache ==
    \/ \E dir \in LocaleDirs, lang \in Langs, content \in Contents :
          FileChange(dir, lang, content)
    \/ WatcherReload
    \/ \E ed \in {FileAB, FileBB} : ChangeActiveTextEditor(ed)
    \/ DecorateEditor

SpecCache == InitCache /\ [][NextCache]_vars

-----------------------------------------------------------------------------
(***************************************************************************)
(* SpecAlloc: a sequence of addStringToBaseLanguage calls on one document. *)
(***************************************************************************)

\* The documents a behaviour starts from; the 4-digit leaf keys of each are
\* unique in the whole document.
InitDocs ==
    { EmptyDoc,
      DocOf(<<"a", "b">> :> "old"),
      DocOf(<<"a">> :> "old"),
      DocOf(<<"a", "b", "0001">> :> "old" @@ <<"b">> :> "new"),
      DocOf(<<"a", "b", "0002", "x">> :> "old") }

\* The key path prefixes of the calls, as the segments between the dots.
Prefixes == { <<"a", "b">>, <<"a", "0001">>, <<"a", "b", "">>, <<"b">> }

NoCall == [updated |-> EmptyDoc, fullKeyPath |-> << >>, parts |-> << >>,
           text |-> "", used |-> {}, minted |-> << >>]

InitAlloc ==
    /\ doc \in InitDocs
    /\ pre = doc
    /\ call = NoCall
    /\ ncalls = 0
    /\ IdleAddKey
    /\ IdleFn

AddString ==
    /\ ncalls < MaxCalls
    /\ \E keyPathPrefix \in Prefixes, text \in Texts :
         \E r \in addStringToBaseLanguage(doc, keyPathPrefix, text) :
            /\ doc' = r.updated
            /\ pre' = doc
            /\ call' = r
            /\ ncalls' = ncalls + 1
    /\ UNCHANGED <<keyVars, worldVars, fsVars, ctxVars, projectContextCache, watch,
                   fnVars, stepVars>>

NextAlloc == AddString

SpecAlloc == InitAlloc /\ [][NextAlloc]_vars

-----------------------------------------------------------------------------
(***************************************************************************)
(* SpecResolve: translation lookups in the documents that are loaded, by   *)
(* the walk getValueByPathLoose and by the two resolvers decorateEditor    *)
(* and the hover provider call: getTranslationForProject when the file has *)
(* a per-project context, getTranslation otherwise.                        *)
(***************************************************************************)

\* The documents of the locale files.
ResolveDocs ==
    { EmptyDoc,
      DocOf(<<"a", "b">> :> "old"),
      DocOf(<<"a", "0001">> :> "old"),
      DocOf(<<"a", "0001">> :> "old" @@ <<"a", "0002">> :> "new"),
      DocOf(<<"a", "b">> :> "new" @@ <<"a", "0002">> :> "old") }

\* The keys looked up, as the segments between the dots.
KeyPaths ==
    { <<"a">>, <<"a", "b">>, <<"a", "title">>, <<"a", "0001">>, <<"a", "0003">>,
      <<"x">> }

DirA == ResolveDir("A", "out")

\* The documents of the languages ls as the files of DirA hold them.
Loaded(fs, ls) == [l \in ls |-> fs[DirA][l].doc]

\* A session in project A: both locale files exist, the global context has
\* preloaded the base and the preview language, and each cache holds the
\* languages that were previewed since it was last cleared.
InitResolve ==
    /\ IdleAlloc
    /\ IdleSteps
    /\ lookup = NoLookup
    /\ sync = NoSyncCheck
    /\ norm = NoNormalization
    /\ isProcessingCommand = FALSE
    /\ inv = [i \in Invocations |-> NewInvocation]
    /\ justWrote = NothingWritten
    /\ watch = NoNotification
    /\ source = [f \in SourceFiles |-> [calls |-> << >>, decl |-> FALSE]]
    /\ activeEditor = FileAB
    /\ workspaceFolders = <<"A", "B">>
    /\ \E de \in ResolveDocs, en \in ResolveDocs :
          files = [NoFiles EXCEPT ![DirA]["de"] = Json(de), ![DirA]["en"] = Json(en)]
    /\ dirs = {DirA}
    /\ savedDir = [p \in Projects |-> IF p = "A" THEN DirA ELSE NoDir]
    /\ localeWatcher = DirA
    /\ \E b \in Langs :
          /\ cliConfigs = [p \in Projects |->
                            IF p = "A" THEN [outputDir |-> "out", baseLanguage |-> b]
                            ELSE NoConfig]
          /\ projectContext = [projectRoot |-> "A", localesDir |-> DirA,
                               baseLanguage |-> b]
    /\ activePreviewLanguage \in Langs
    /\ \E ls \in SUBSET Langs :
          /\ {projectContext.baseLanguage, activePreviewLanguage} \subseteq ls
          /\ localeCache = Loaded(files, ls)
    /\ \E ls \in SUBSET Langs :
          projectContextCache =
            [d \in {DirA} |->
                [getOrCreateProjectContext(<< >>, files, dirs, DirA)[DirA]
                    EXCEPT !.localeData = Loaded(files, ls)]]

\* getValueByPathLoose(doc, keyPath) on the document loaded for a language.
ResolveLoose(l, keyPath) ==
    /\ l \in DOMAIN localeCache
    /\ lookup' = [done |-> TRUE, entry |-> "loose", keyPath |-> keyPath,
                  preferred |-> l, base |-> l,
                  loaded |-> [x \in {l} |-> localeCache[x]],
                  value |-> getValueByPathLoose(localeCache[l], keyPath)]
    /\ UNCHANGED <<keyVars, worldVars, fsVars, ctxVars, projectContextCache, watch,
                   allocVars, sync, norm,
                   stepVars>>

\* getTranslationForProject(ctx, key) with the context of the locales folder
\* of the file: the preferred and the base language are loaded on the way.
LookupForProject(keyPath) ==
    /\ DirA \in DOMAIN projectContextCache
    /\ LET ctx == projectContextCache[DirA]
           after == loadForLookup(ctx, files, activePreviewLanguage)
       IN  /\ projectContextCache' = [projectContextCache EXCEPT ![DirA] = after]
           /\ lookup' = [done |-> TRUE, entry |-> "project", keyPath |-> keyPath,
                         preferred |-> IF activePreviewLanguage # NoLang
                                       THEN activePreviewLanguage
                                       ELSE ctx.baseLanguage,
                         base |-> ctx.baseLanguage,
                         loaded |-> after.localeData,
                         value |-> getTranslationForProject(ctx, files, keyPath,
                                                            NoLang)]
    /\ UNCHANGED <<keyVars, worldVars, fsVars, ctxVars, watch, allocVars, sync, norm,
                   stepVars>>

\* getTranslation(key) on the global context and cache.
LookupGlobal(keyPath) ==
    /\ lookup' = [done |-> TRUE, entry |-> "global", keyPath |-> keyPath,
                  preferred |-> IF activePreviewLanguage # NoLang
                                THEN activePreviewLanguage
                                ELSE projectContext.baseLanguage,
                  base |-> projectContext.baseLanguage,
                  loaded |-> localeCache,
                  value |-> getTranslation(projectContext, localeCache,
                                           activePreviewLanguage, keyPath)]
    /\ UNCHANGED <<keyVars, worldVars, fsVars, ctxVars, projectContextCache, watch,
                   allocVars, sync, norm,
                   stepVars>>

NextResolve ==
    \/ \E l \in Langs, keyPath \in KeyPaths : ResolveLoose(l, keyPath)
    \/ \E keyPath \in KeyPaths : LookupForProject(keyPath)
    \/ \E keyPath \in KeyPaths : LookupGlobal(keyPath)

SpecResolve == InitResolve /\ [][NextResolve]_vars

-----------------------------------------------------------------------------
(***************************************************************************)
(* SpecSync: the sync tracking.  The base-language file and the snapshot   *)
(* .stringer-sync.json change on disk (the snapshot is written by the CLI) *)
(* and checkSyncStatus compares the two.                                   *)
(***************************************************************************)

\* The width of the hash: `hash >>> 0`.
HashBits == 32

\* The strings of the documents and value.charCodeAt(i) of each.
SyncTexts == {"old", "new", "Af", "FA"}

CodeUnits(value) ==
    CASE value = "old" -> <<111, 108, 100>>
      [] value = "new" -> <<110, 101, 119>>
      [] value = "Af"  -> <<65, 102>>
      [] value = "FA"  -> <<70, 65>>
      [] OTHER         -> << >>

\* a ^ b on unsigned integers
RECURSIVE BitXor(_, _)
BitXor(a, b) ==
    IF a = 0 THEN b
    ELSE IF b = 0 THEN a
    ELSE (((a % 2) + (b % 2)) % 2) + (2 * BitXor(a \div 2, b \div 2))

\* A 32-bit unsigned integer is kept as its two 16-bit halves, so that no
\* product leaves the integers of the model checker.
Half == 2 ^ (HashBits \div 2)

\* unsignedHash.toString(16).padStart(8, '0')
HexDigit == <<"0", "1", "2", "3", "4", "5", "6", "7",
              "8", "9", "a", "b", "c", "d", "e", "f">>

Hex4(n) == [i \in 1..4 |-> HexDigit[((n \div (16 ^ (4 - i))) % 16) + 1]]

Hex8(hash) == Hex4(hash.hi) \o Hex4(hash.lo)

\* (hash * 33) ^ code: `^` takes its operands modulo 2^32, and a character
\* code has 16 bits.
Times33Xor(hash, code) ==
    LET lo == hash.lo * 33
        hi == (hash.hi * 33) + (lo \div Half)
    IN  [hi |-> hi % Half, lo |-> BitXor(lo % Half, code)]

\* The loop of generateKeyHash from character i on; `>>> 0` gives the
\* unsigned value of the result.
RECURSIVE djb2(_, _, _)
djb2(codes, i, hash) ==
    IF i > Len(codes) THEN hash
    ELSE djb2(codes, i + 1, Times33Xor(hash, codes[i]))

generateKeyHash(value) ==
    Hex8(djb2(CodeUnits(value), 1, [hi |-> 5381 \div Half, lo |-> 5381 % Half]))

\* flattenLocale(obj): the dot-notated keys of the string leaves.  A key is
\* written as its segments; no property name of the model holds a dot, so
\* that different paths give different keys.
flattenLocale(d) == {p \in DOMAIN d : d[p] # OBJ}

\* flattenAndHashLocale(localeObj)
flattenAndHashLocale_noValue(d) == [key \in flattenLocale(d) |-> generateKeyHash("")]

flattenAndHashLocale(d) == [key \in flattenLocale(d) |-> generateKeyHash(d[key])]

\* loadSyncFile(localesDir): null when the file is missing or does not parse.
loadSyncFile_emptySnapshot(file) ==
    IF file.kind = "json" THEN file ELSE [kind |-> "json", keys |-> << >>]

loadSyncFile(file) == IF file.kind = "json" THEN file ELSE NoSyncFile

\* detectSyncChanges(currentHashes, storedHashes); a list is written as the
\* set of its keys (no key is pushed twice).
detectSyncChanges_noRemoved(currentHashes, storedHashes) ==
    LET modifiedKeys == {key \in DOMAIN currentHashes \cap DOMAIN storedHashes :
                            currentHashes[key] # storedHashes[key]}
        newKeys == DOMAIN currentHashes \ DOMAIN storedHashes
    IN  [null |-> FALSE, inSync |-> modifiedKeys = {} /\ newKeys = {},
         modifiedKeys |-> modifiedKeys, newKeys |-> newKeys, removedKeys |-> {}]

detectSyncChanges(currentHashes, storedHashes) ==
    LET modifiedKeys == {key \in DOMAIN currentHashes \cap DOMAIN storedHashes :
                            currentHashes[key] # storedHashes[key]}
        newKeys == DOMAIN currentHashes \ DOMAIN storedHashes
        removedKeys == DOMAIN storedHashes \ DOMAIN currentHashes
    IN  [null |-> FALSE,
         inSync |-> modifiedKeys = {} /\ newKeys = {} /\ removedKeys = {},
         modifiedKeys |-> modifiedKeys, newKeys |-> newKeys,
         removedKeys |-> removedKeys]

\* checkSyncStatus(localesDir, baseLanguage) with the snapshot file as it is:
\* null when the base file is missing or an exception is caught.
checkSyncStatus(fs, file, localesDir, baseLanguage) ==
    IF ~FileExists(fs, localesDir, baseLanguage) THEN NoStatus
    ELSE IF ParseFailed(fs[localesDir][baseLanguage]) THEN NoStatus
    ELSE LET currentHashes == flattenAndHashLocale(fs[localesDir][baseLanguage].doc)
             syncData == loadSyncFile(file)
         IN  IF syncData = NoSyncFile
             THEN [null |-> FALSE, inSync |-> TRUE, modifiedKeys |-> {},
                   newKeys |-> {}, removedKeys |-> {}]
             ELSE detectSyncChanges(currentHashes, syncData.keys)

\* The documents of the base-language file, now and when the CLI took the
\* snapshot.
SyncDocs ==
    { EmptyDoc,
      DocOf(<<"a", "b">> :> "old"),
      DocOf(<<"a", "b">> :> "new"),
      DocOf(<<"a", "b">> :> "Af"),
      DocOf(<<"a", "b">> :> "FA"),
      DocOf(<<"c">> :> "new"),
      DocOf(<<"a", "b">> :> "old" @@ <<"c">> :> "new"),
      DocOf(<<"a", "b">> :> "new" @@ <<"c">> :> "new"),
      DocOf(<<"a", "b">> :> "old" @@ <<"d">> :> "old") }

\* The snapshot the CLI writes of a document: its keys with their hashes.
CliSnapshot(d) ==
    [kind |-> "json", keys |-> [key \in flattenLocale(d) |-> generateKeyHash(d[key])]]

BaseContents == {Absent, Invalid} \cup {Json(d) : d \in SyncDocs}

SyncContents ==
    {NoSyncFile, [kind |-> "invalid", keys |-> << >>]}
        \cup {CliSnapshot(d) : d \in SyncDocs}

\* Project A with base language en is open; no snapshot has been taken.
InitSync ==
    /\ IdleAlloc
    /\ IdleSteps
    /\ lookup = NoLookup
    /\ norm = NoNormalization
    /\ sync = NoSyncCheck
    /\ isProcessingCommand = FALSE
    /\ inv = [i \in Invocations |-> NewInvocation]
    /\ justWrote = NothingWritten
    /\ watch = NoNotification
    /\ source = [f \in SourceFiles |-> [calls |-> << >>, decl |-> FALSE]]
    /\ activeEditor = FileAB
    /\ workspaceFolders = <<"A", "B">>
    /\ cliConfigs = [p \in Projects |-> IF p = "A" THEN ConfigA ELSE NoConfig]
    /\ \E d \in SyncDocs : files = [NoFiles EXCEPT ![DirA]["en"] = Json(d)]
    /\ dirs = {DirA}
    /\ savedDir = [p \in Projects |-> IF p = "A" THEN DirA ELSE NoDir]
    /\ localeWatcher = DirA
    /\ projectContext = [projectRoot |-> "A", localesDir |-> DirA,
                         baseLanguage |-> "en"]
    /\ activePreviewLanguage = "en"
    /\ localeCache = Loaded(files, {"en"})
    /\ projectContextCache = << >>

\* The base-language file is edited, replaced or deleted; the status
\* returned for the files as they were is dropped.
BaseFileChange(content) ==
    /\ content # files[DirA][projectContext.baseLanguage]
    /\ files' = [files EXCEPT ![DirA][projectContext.baseLanguage] = content]
    /\ sync' = [NoSyncCheck EXCEPT !.file = sync.file]
    /\ UNCHANGED <<keyVars, worldVars, dirs, ctxVars, projectContextCache, watch,
                   allocVars, lookup, norm,
                   stepVars>>

\* The snapshot file is written, damaged or deleted.
SyncFileChange(content) ==
    /\ content # sync.file
    /\ sync' = [NoSyncCheck EXCEPT !.file = content]
    /\ UNCHANGED <<keyVars, worldVars, fsVars, ctxVars, projectContextCache, watch,
                   allocVars, lookup, norm,
                   stepVars>>

\* checkSyncStatus(localesDir, baseLanguage) is called; the files it read
\* and the hash maps it compared are kept with its result.
CheckSyncStatus ==
    /\ LET base == files[DirA][projectContext.baseLanguage]
       IN  sync' = [file |-> sync.file, done |-> TRUE,
                    status |-> checkSyncStatus(files, sync.file, DirA,
                                               projectContext.baseLanguage),
                    base |-> base, snapshot |-> sync.file,
                    current |-> IF ParseFailed(base) THEN << >>
                                ELSE flattenAndHashLocale(base.doc),
                    stored |-> loadSyncFile(sync.file).keys]
    /\ UNCHANGED <<keyVars, worldVars, fsVars, ctxVars, projectContextCache, watch,
                   allocVars, lookup, norm,
                   stepVars>>

NextSync ==
    \/ \E content \in BaseContents : BaseFileChange(content)
    \/ \E content \in SyncContents : SyncFileChange(content)
    \/ CheckSyncStatus

SpecSync == InitSync /\ [][NextSync]_vars


-----------------------------------------------------------------------------
(***************************************************************************)
(* SpecNormalize: the selection is turned into the text of a locale entry  *)
(* with placeholders, and into the t() call that replaces it.  A string is *)
(* the sequence of its characters.                                         *)
(***************************************************************************)
(* SpecMint: one run of nextGlobalLeafKey, an iteration of its loops at a  *)
(* step.  The ids are the first NumIds of the 10000, the random loop makes *)
(* MaxTries draws instead of 500, and Math.random may give any id.  The    *)
(* loops are synchronous code: an iteration that can run does run.         *)
(***************************************************************************)

\* i.toString().padStart(4, '0')
padStart4_fromTop(i) == IdName[NumIds - i]

padStart4(i) == IdName[i + 1]

InitMint ==
    /\ IdleAlloc
    /\ IdleAddKey
    /\ lookup = NoLookup
    /\ sync = NoSyncCheck
    /\ norm = NoNormalization
    /\ hashing = NoHashing
    /\ nearest = NoNearest
    /\ alert = NoAlert
    /\ vue = NoVue
    /\ \E used \in SUBSET Ids :
            mint = [NoMint EXCEPT !.used = used, !.phase = "random"]

\* start.ts 1351-1356: an iteration of the random loop.
RandomDraw(k) ==
    /\ mint.phase = "random"
    /\ mint.tries < MaxTries
    /\ mint' = IF k \notin mint.used
               THEN [mint EXCEPT !.phase = "returned", !.k = k,
                                 !.draws = Append(@, k)]
               ELSE [mint EXCEPT !.tries = @ + 1, !.k = k,
                                 !.draws = Append(@, k),
                                 !.phase = IF mint.tries + 1 < MaxTries
                                           THEN "random" ELSE "scan"]
    /\ UNCHANGED <<keyVars, worldVars, fsVars, ctxVars, projectContextCache, watch,
                   allocVars, fnVars, exceptMint>>

\* start.ts 1358-1361: an iteration of the linear scan.
ScanStep ==
    /\ mint.phase = "scan"
    /\ mint.i < NumIds
    /\ LET k == padStart4(mint.i)
       IN  mint' = IF k \notin mint.used
                   THEN [mint EXCEPT !.phase = "returned", !.k = k]
                   ELSE [mint EXCEPT !.i = @ + 1, !.k = k,
                                     !.phase = IF mint.i + 1 < NumIds
                                               THEN "scan" ELSE "retry"]
    /\ UNCHANGED <<keyVars, worldVars, fsVars, ctxVars, projectContextCache, watch,
                   allocVars, fnVars, exceptMint>>

\* start.ts 1363-1367: a draw of the last resort, before the loop or in it.
RetryDraw(k) ==
    /\ mint.phase = "retry"
    /\ mint' = IF k \notin mint.used
               THEN [mint EXCEPT !.phase = "returned", !.k = k]
               ELSE [mint EXCEPT !.k = k]
    /\ UNCHANGED <<keyVars, worldVars, fsVars, ctxVars, projectContextCache, watch,
                   allocVars, fnVars, exceptMint>>

NextMint ==
    \/ \E k \in Ids : RandomDraw(k)
    \/ ScanStep
    \/ \E k \in Ids : RetryDraw(k)

SpecMint == InitMint /\ [][NextMint]_vars /\ WF_vars(NextMint)

(***************************************************************************)
(* SpecReload: SpecCache with the two explicit reloads, the command        *)
(* stringer.reloadLocales and the message reloadLocales of the control     *)
(* panel.                                                                  *)
(***************************************************************************)

\* start.ts 2490-2497: the command stringer.reloadLocales.
ReloadCommand ==
    /\ LET e == ensureProjectContextFrom([ContextState EXCEPT !.localeCache = << >>],
                                         activeEditor)
           st == [savedDir |-> e.savedDir, projectContext |-> e.projectContext,
                  activePreviewLanguage |-> e.activePreviewLanguage,
                  localeWatcher |-> e.localeWatcher,
                  localeCache |-> preloadLocales(e.localeCache, files,
                                                 e.projectContext,
                                                 e.activePreviewLanguage),
                  watch |-> e.watch]
           d == decorateEditor(activeEditor, st,
                               clearAllProjectContextCaches(projectContextCache),
                               files, dirs)
       IN  /\ savedDir' = e.savedDir
           /\ projectContext' = e.projectContext
           /\ activePreviewLanguage' = e.activePreviewLanguage
           /\ localeWatcher' = e.localeWatcher
           /\ watch' = e.watch
           /\ localeCache' = d.localeCache
           /\ projectContextCache' = d.projectContextCache
    /\ justWrote' = NothingWritten
    /\ UNCHANGED <<isProcessingCommand, inv, activeEditor, source, worldVars, fsVars,
                   allocVars, fnVars, stepVars>>

\* start.ts 2625-2630: the message reloadLocales of the control panel.
PanelReload ==
    /\ LET st == [ContextState EXCEPT !.localeCache =
                    preloadLocales(<< >>, files, projectContext,
                                   activePreviewLanguage)]
           d == decorateEditor(activeEditor, st, projectContextCache, files, dirs)
       IN  /\ localeCache' = d.localeCache
           /\ projectContextCache' = d.projectContextCache
    /\ justWrote' = NothingWritten
    /\ UNCHANGED <<isProcessingCommand, inv, activeEditor, source, worldVars, fsVars,
                   savedDir, projectContext, activePreviewLanguage, localeWatcher,
                   allocVars, watch, fnVars, stepVars>>

NextReload ==
    \/ NextCache
    \/ ReloadCommand
    \/ PanelReload

SpecReload == InitCache /\ [][NextReload]_vars

(***************************************************************************)
(* SpecNearest: the lookups of the locales folder of a file.  A path is    *)
(* the sequence of its segments; a workspace root may hold several         *)
(* packages, each with a locales folder of its own.                        *)
(***************************************************************************)

\* The workspace roots, the files that are looked up and the folders that
\* may hold locale files.
RootA == <<"A">>
RootB == <<"B">>

NearestFiles ==
    { <<"A", "web", "src", "x.vue">>, <<"A", "api", "y.vue">>, <<"A", "z.vue">>,
      <<"B", "x.vue">> }

NearestFolders ==
    { <<"A", "web", "src", "locales">>, <<"A", "web", "locales">>,
      <<"A", "api", "locales">>, <<"A", "locales">>, <<"B", "src", "locales">> }

\* LOCALE_FOLDER_PATTERNS, the ones the folders of the model match, in order.
LOCALE_FOLDER_PATTERNS == << <<"locales">>, <<"src", "locales">> >>

\* The safety limit of the walk.
maxIterations == 20

\* String.prototype.toLowerCase on a path segment.
LowerSegment(seg) ==
    CASE seg = "A" -> "a"
      [] seg = "B" -> "b"
      [] OTHER -> seg

\* normalizePathForComparison(filePath): lower case on win32, else as is.
normalizePathForComparison(win32, filePath) ==
    IF win32 THEN [i \in 1..Len(filePath) |-> LowerSegment(filePath[i])]
    ELSE filePath

\* path.dirname
dirname(p) == IF Len(p) <= 1 THEN p ELSE SubSeq(p, 1, Len(p) - 1)

\* containsLocaleFiles(dirPath), on the folders that hold locale files
containsLocaleFilesIn(localeDirs, dirPath) == dirPath \in localeDirs

\* checkLocalePatterns(dir), from pattern i on
RECURSIVE checkPatternsFrom(_, _, _)
checkPatternsFrom(localeDirs, dir, i) ==
    IF i > Len(LOCALE_FOLDER_PATTERNS) THEN NoFolderPath
    ELSE IF containsLocaleFilesIn(localeDirs, dir \o LOCALE_FOLDER_PATTERNS[i])
    THEN dir \o LOCALE_FOLDER_PATTERNS[i]
    ELSE checkPatternsFrom(localeDirs, dir, i + 1)

checkLocalePatterns(localeDirs, dir) ==
    IF containsLocaleFilesIn(localeDirs, dir) THEN dir
    ELSE checkPatternsFrom(localeDirs, dir, 1)

\* The loop of findLocalesFolderFromFile and the final check of the root.
RECURSIVE walkUp(_, _, _, _, _)
walkUp(win32, localeDirs, currentDir, iterations, workspaceRoot) ==
    LET found == checkLocalePatterns(localeDirs, currentDir)
        normalizedCurrent == normalizePathForComparison(win32, currentDir)
        normalizedRoot == normalizePathForComparison(win32, workspaceRoot)
        parent == dirname(currentDir)
        rootFound == checkLocalePatterns(localeDirs, workspaceRoot)
    IN  IF currentDir = << >> \/ iterations >= maxIterations THEN rootFound
        ELSE IF found # NoFolderPath THEN found
        ELSE IF \/ normalizedCurrent = normalizedRoot
                \/ ~IsStrictPrefixOf(normalizedRoot, normalizedCurrent)
        THEN rootFound
        ELSE IF parent = currentDir THEN rootFound
        ELSE walkUp(win32, localeDirs, parent, iterations + 1, workspaceRoot)

\* findLocalesFolderFromFile(filePath, workspaceRoot), without a cache
findLocalesFolderFromFileIn(win32, localeDirs, filePath, workspaceRoot) ==
    walkUp(win32, localeDirs, dirname(filePath), 0, workspaceRoot)

\* findNearestLocalesFolder(filePath, workspaceRoot): what it returns and the
\* cache it leaves.
findNearestLocalesFolder(n, filePath, workspaceRoot) ==
    LET normalizedWorkspaceRoot == normalizePathForComparison(n.win32, workspaceRoot)
        found == findLocalesFolderFromFileIn(n.win32, n.localeDirs, filePath,
                                             workspaceRoot)
    IN  IF workspaceRoot = NoFolderPath
        THEN [found |-> NoFolderPath, localesFolderCache |-> n.localesFolderCache]
        ELSE IF normalizedWorkspaceRoot \in DOMAIN n.localesFolderCache
        THEN [found |-> n.localesFolderCache[normalizedWorkspaceRoot],
              localesFolderCache |-> n.localesFolderCache]
        ELSE [found |-> found,
              localesFolderCache |->
                IF found # NoFolderPath
                THEN (normalizedWorkspaceRoot :> found) @@ n.localesFolderCache
                ELSE n.localesFolderCache]

\* findLocalesFolderForWorkspace(workspaceRoot), on the same cache
findLocalesFolderForWorkspace(n, workspaceRoot) ==
    LET normalizedWorkspaceRoot == normalizePathForComparison(n.win32, workspaceRoot)
        found == checkLocalePatterns(n.localeDirs, workspaceRoot)
    IN  IF normalizedWorkspaceRoot \in DOMAIN n.localesFolderCache
        THEN [found |-> n.localesFolderCache[normalizedWorkspaceRoot],
              localesFolderCache |-> n.localesFolderCache]
        ELSE [found |-> found,
              localesFolderCache |->
                IF found # NoFolderPath
                THEN (normalizedWorkspaceRoot :> found) @@ n.localesFolderCache
                ELSE n.localesFolderCache]

\* The workspace folder of a file of the model.
RootOf(filePath) == <<filePath[1]>>

InitNearest ==
    /\ IdleAlloc
    /\ IdleAddKey
    /\ lookup = NoLookup
    /\ sync = NoSyncCheck
    /\ norm = NoNormalization
    /\ hashing = NoHashing
    /\ alert = NoAlert
    /\ vue = NoVue
    /\ mint = NoMint
    /\ \E win32 \in BOOLEAN, localeDirs \in SUBSET NearestFolders :
            nearest = [NoNearest EXCEPT !.win32 = win32, !.localeDirs = localeDirs]

\* findNearestLocalesFolder is called for a file and its workspace folder.
FindNearest(filePath) ==
    /\ LET r == findNearestLocalesFolder(nearest, filePath, RootOf(filePath))
       IN  nearest' = [nearest EXCEPT !.done = TRUE, !.filePath = filePath,
                                      !.workspaceRoot = RootOf(filePath),
                                      !.found = r.found,
                                      !.localesFolderCache = r.localesFolderCache]
    /\ UNCHANGED <<keyVars, worldVars, fsVars, ctxVars, projectContextCache, watch,
                   allocVars, fnVars, exceptNearest>>

\* findLocalesFolderForWorkspace is called for a workspace folder.
FindForWorkspace(workspaceRoot) ==
    /\ LET r == findLocalesFolderForWorkspace(nearest, workspaceRoot)
       IN  nearest' = [nearest EXCEPT !.done = FALSE, !.filePath = << >>,
                                      !.workspaceRoot = workspaceRoot,
                                      !.found = r.found,
                                      !.localesFolderCache = r.localesFolderCache]
    /\ UNCHANGED <<keyVars, worldVars, fsVars, ctxVars, projectContextCache, watch,
                   allocVars, fnVars, exceptNearest>>

\* clearAllProjectContextCaches() / clearLocalesFolderCache()
ClearLocalesFolderCache ==
    /\ nearest.localesFolderCache # << >>
    /\ nearest' = [nearest EXCEPT !.localesFolderCache = << >>, !.done = FALSE,
                                  !.filePath = << >>, !.workspaceRoot = << >>,
                                  !.found = << >>]
    /\ UNCHANGED <<keyVars, worldVars, fsVars, ctxVars, projectContextCache, watch,
                   allocVars, fnVars, exceptNearest>>

NextNearest ==
    \/ \E filePath \in NearestFiles : FindNearest(filePath)
    \/ \E workspaceRoot \in {RootA, RootB} : FindForWorkspace(workspaceRoot)
    \/ ClearLocalesFolderCache

SpecNearest == InitNearest /\ [][NextNearest]_vars

-----------------------------------------------------------------------------
(***************************************************************************)
(* SpecBusy: the add-key command when every awaited host call returns.     *)
(* The base-language file of project A may be one in which every id is     *)
(* used.                                                                   *)
(***************************************************************************)

\* A base-language document whose leaves use every four-digit id.
FullDoc == DocOf([p \in {<<"x", id>> : id \in Ids} |-> "old"])

\* while (used.has(k)) k = random4(): the invocation is inside
\* nextGlobalLeafKey with every id used; the draw k is used as well.
MintAgain(i, k) ==
    /\ inv[i].pc = "minting"
    /\ mint' = [mint EXCEPT !.k = k]
    /\ justWrote' = NothingWritten
    /\ UNCHANGED <<isProcessingCommand, inv, activeEditor, source, worldVars,
                   fsVars, ctxVars, projectContextCache, allocVars, watch,
                   fnVars, exceptMint>>

InitBusy ==
    /\ IdleAlloc
    /\ IdleFn
    /\ WorldWith({Absent, Invalid, Json(DocOf(<<"a", "b">> :> "old")),
                  Json(FullDoc)})
    /\ \E ed \in SourceFiles \cup {NoEditor} : Activated(ed)

\* What runs without the user: the awaited host calls return, and the loop
\* of nextGlobalLeafKey keeps drawing.
HostReturns ==
    \/ \E i \in Invocations : ResumeCtx(i)
    \/ \E i \in Invocations : ResumePrompt(i)
    \/ \E i \in Invocations : ResumeEdit(i)
    \/ \E i \in Invocations : ResumeDecl(i)
    \/ \E i \in Invocations, k \in Ids : MintAgain(i, k)

NextBusy ==
    \/ \E i \in Invocations : InvokeDropped(i)
    \/ \E i \in Invocations : Invoke(i)
    \/ HostReturns

SpecBusy == InitBusy /\ [][NextBusy]_vars /\ WF_vars(HostReturns)

-----------------------------------------------------------------------------
(***************************************************************************)
(* SpecBase: the add-key command in worlds where a locales directory holds *)
(* any set of locale files, whatever base language the CLI config names.   *)
(***************************************************************************)

InitBase ==
    /\ IdleAlloc
    /\ IdleFn
    /\ workspaceFolders = <<"A", "B">>
    /\ cliConfigs \in {[p \in Projects |-> IF p = "A" THEN ConfigA ELSE cb]
                          : cb \in {NoConfig, ConfigB}}
    /\ files \in [LocaleDirs -> [Langs -> {Absent, Json(EmptyDoc)}]]
    /\ dirs = {d \in LocaleDirs : \E l \in Langs : FileExists(files, d, l)}
    /\ source = [f \in SourceFiles |-> [calls |-> << >>, decl |-> FALSE]]
    /\ \E ed \in SourceFiles \cup {NoEditor} : Activated(ed)

SpecBase == InitBase /\ [][NextAddKey]_vars

-----------------------------------------------------------------------------
(***************************************************************************)
(* SpecAlert: the out-of-sync notification.  Change events of the          *)
(* base-language file run checkAndNotifySync; a handler that shows the     *)
(* notification is suspended until the user answers, and after that until  *)
(* runAlignInTerminal returns.  Time is counted in seconds.                *)
(***************************************************************************)

MaxEvents == 3      \* change events of the base-language file in a behaviour
MaxClock == 150     \* the seconds a behaviour lasts

\* setTimeout(..., 60000), in seconds
ReAlertDelay == 60

\* The seconds that pass between two steps.
Elapses == {30, 60}

\* What a change event finds: no project context, no status (checkSyncStatus
\* returns null), the file in sync, the file out of sync.
Findings == {"noContext", "unavailable", "inSync", "outOfSync"}

\* The answers to the notification: a button, or it is dismissed.
Choices == {"Align Now", "Remind Later", "dismissed"}

\* if (status && !status.inSync && !pendingSyncAlert)
ShowsAlert_whenOutOfSync(found, pending) == found = "outOfSync"

ShowsAlert(found, pending) == found = "outOfSync" /\ ~pending

InitAlert ==
    /\ IdleAlloc
    /\ IdleAddKey
    /\ lookup = NoLookup
    /\ sync = NoSyncCheck
    /\ norm = NoNormalization
    /\ hashing = NoHashing
    /\ vue = NoVue
    /\ mint = NoMint
    /\ nearest = NoNearest
    /\ alert = NoAlert

\* syncWatcher.onDidChange: checkAndNotifySync runs to its first await, or
\* to its end.  suppressed counts the events that found the file out of sync
\* and showed nothing.
ChangeEvent(found) ==
    /\ alert.events < MaxEvents
    /\ alert' = IF ShowsAlert(found, alert.pendingSyncAlert)
                THEN [alert EXCEPT !.events = @ + 1, !.pendingSyncAlert = TRUE,
                                   !.asking = @ + 1]
                ELSE IF found = "outOfSync"
                THEN [alert EXCEPT !.events = @ + 1, !.suppressed = @ + 1]
                ELSE [alert EXCEPT !.events = @ + 1]
    /\ UNCHANGED <<keyVars, worldVars, fsVars, ctxVars, projectContextCache, watch,
                   allocVars, fnVars, exceptAlert>>

\* await showInformationMessage(...) returns the choice: Align Now goes on
\* to await runAlignInTerminal (when a workspace folder is found), anything
\* else sets the timer.
Answer(choice, folderFound) ==
    /\ alert.asking > 0
    /\ alert' = IF choice = "Align Now" /\ folderFound
                THEN [alert EXCEPT !.asking = @ - 1, !.aligning = @ + 1,
                                   !.answered = TRUE, !.answeredAt = alert.now]
                ELSE [alert EXCEPT !.asking = @ - 1,
                                   !.timers = @ \cup {alert.now + ReAlertDelay},
                                   !.answered = TRUE, !.answeredAt = alert.now]
    /\ UNCHANGED <<keyVars, worldVars, fsVars, ctxVars, projectContextCache, watch,
                   allocVars, fnVars, exceptAlert>>

\* await runAlignInTerminal(...) returns and the timer is set, or it throws
\* and the handler ends without one.
AlignReturns(thrown) ==
    /\ alert.aligning > 0
    /\ alert' = IF thrown
                THEN [alert EXCEPT !.aligning = @ - 1]
                ELSE [alert EXCEPT !.aligning = @ - 1,
                                   !.timers = @ \cup {alert.now + ReAlertDelay}]
    /\ UNCHANGED <<keyVars, worldVars, fsVars, ctxVars, projectContextCache, watch,
                   allocVars, fnVars, exceptAlert>>

\* The callback of setTimeout runs, at its time or later.
TimerFires(t) ==
    /\ t \in alert.timers
    /\ alert.now >= t
    /\ alert' = [alert EXCEPT !.timers = @ \ {t}, !.pendingSyncAlert = FALSE]
    /\ UNCHANGED <<keyVars, worldVars, fsVars, ctxVars, projectContextCache, watch,
                   allocVars, fnVars, exceptAlert>>

\* Time passes.
Tick(d) ==
    /\ alert.now + d <= MaxClock
    /\ alert' = [alert EXCEPT !.now = @ + d]
    /\ UNCHANGED <<keyVars, worldVars, fsVars, ctxVars, projectContextCache, watch,
                   allocVars, fnVars, exceptAlert>>

NextAlert ==
    \/ \E found \in Findings : ChangeEvent(found)
    \/ \E choice \in Choices, folderFound \in BOOLEAN : Answer(choice, folderFound)
    \/ \E thrown \in BOOLEAN : AlignReturns(thrown)
    \/ \E t \in 0..(MaxClock + ReAlertDelay) : TimerFires(t)
    \/ \E d \in Elapses : Tick(d)

SpecAlert == InitAlert /\ [][NextAlert]_vars

(***************************************************************************)

\* The character U+0060, which a string of this notation cannot hold.
Backtick == "U+0060"

LowerCase == <<"a", "b", "c", "d", "e", "f", "g", "h", "i", "j", "k", "l", "m", "n", "o", "p", "q", "r", "s", "t", "u", "v", "w", "x", "y", "z">>

UpperCase == <<"A", "B", "C", "D", "E", "F", "G", "H", "I", "J", "K", "L", "M", "N", "O", "P", "Q", "R", "S", "T", "U", "V", "W", "X", "Y", "Z">>

IsLower(c) == \E i \in 1..Len(LowerCase) : LowerCase[i] = c

IsUpper(c) == \E i \in 1..Len(UpperCase) : UpperCase[i] = c

IsDigit(c) == c \in {"0", "1", "2", "3", "4", "5", "6", "7", "8", "9"}

\* [A-Za-z_$] and [A-Za-z0-9_$]
IsIdStart(c) == IsLower(c) \/ IsUpper(c) \/ c \in {"_", "$"}

IsIdChar(c) == IsIdStart(c) \/ IsDigit(c)

\* \s
IsSpace(c) == c \in {" ", "\t", "\n"}

\* ['"`]
IsQuote(c) == c \in {"'", "\"", Backtick}

\* String.prototype.toLowerCase
toLowerCase(s) ==
    [i \in 1..Len(s) |->
        IF IsUpper(s[i])
        THEN LowerCase[CHOOSE j \in 1..Len(UpperCase) : UpperCase[j] = s[i]]
        ELSE s[i]]

\* String.prototype.trim
RECURSIVE trim(_)
trim(s) ==
    IF s = << >> THEN s
    ELSE IF IsSpace(s[1]) THEN trim(Tail(s))
    ELSE IF IsSpace(s[Len(s)]) THEN trim(SubSeq(s, 1, Len(s) - 1))
    ELSE s

\* s.includes(sub), and whether sub stands at position i of s
StartsAt(s, i, sub) ==
    /\ i + Len(sub) - 1 <= Len(s)
    /\ SubSeq(s, i, i + Len(sub) - 1) = sub

Includes(s, sub) == \E i \in 1..(Len(s) + 1) : StartsAt(s, i, sub)

\* /name\s*\(/.test(s)
RECURSIVE SkipSpace(_, _)
SkipSpace(s, i) == IF i <= Len(s) /\ IsSpace(s[i]) THEN SkipSpace(s, i + 1) ELSE i

FollowedBy(s, sub, c) ==
    \E i \in 1..Len(s) :
        /\ StartsAt(s, i, sub)
        /\ SkipSpace(s, i + Len(sub)) <= Len(s)
        /\ s[SkipSpace(s, i + Len(sub))] = c

\* The end of the identifier that starts at position i (i - 1 when none does).
RECURSIVE IdentEnd(_, _)
IdentEnd(s, i) == IF i <= Len(s) /\ IsIdChar(s[i]) THEN IdentEnd(s, i + 1) ELSE i - 1

\* The end of the longest match of (?:\.[A-Za-z_$][A-Za-z0-9_$]*)* from
\* position i + 1 on, and the start of the last identifier matched.
RECURSIVE MemberChain(_, _, _)
MemberChain(s, end, lastStart) ==
    IF end + 2 <= Len(s) /\ s[end + 1] = "." /\ IsIdStart(s[end + 2])
    THEN MemberChain(s, IdentEnd(s, end + 2), end + 2)
    ELSE [end |-> end, lastStart |-> lastStart]

\* The first identifier of s: /([A-Za-z_$][A-Za-z0-9_$]*)/
FirstIdentifier(s) ==
    LET i == CHOOSE k \in 1..Len(s) :
                /\ IsIdStart(s[k])
                /\ \A j \in 1..(k - 1) : ~IsIdStart(s[j])
    IN  SubSeq(s, i, IdentEnd(s, i))

\* /^get([A-Z][a-z]+)$/
IsGetter(lastPart) ==
    /\ Len(lastPart) >= 5
    /\ SubSeq(lastPart, 1, 3) = <<"g", "e", "t">>
    /\ IsUpper(lastPart[4])
    /\ \A i \in 5..Len(lastPart) : IsLower(lastPart[i])

\* extractParamName(expr)
extractParamName(expr) ==
    LET cleaned == trim(expr)
    IN  IF cleaned # << >> /\ IsIdStart(cleaned[1])
        THEN LET m == MemberChain(cleaned, IdentEnd(cleaned, 1), 1)
                 lastPart == SubSeq(cleaned, m.lastStart, m.end)
             IN  IF IsGetter(lastPart)
                 THEN toLowerCase(SubSeq(lastPart, 4, Len(lastPart)))
                 ELSE lastPart
        ELSE IF \E k \in 1..Len(cleaned) : IsIdStart(cleaned[k])
        THEN FirstIdentifier(cleaned)
        ELSE <<"v", "a", "l", "u", "e">>

\* isNumberFormatting(expr)
isNumberFormatting(expr) ==
    \/ FollowedBy(expr, <<".", "t", "o", "F", "i", "x", "e", "d">>, "(")
    \/ FollowedBy(expr, <<".", "t", "o", "L", "o", "c", "a", "l", "e", "S", "t", "r", "i", "n", "g">>, "(")
    \/ FollowedBy(expr, <<".", "t", "o", "P", "r", "e", "c", "i", "s", "i", "o", "n">>, "(")
    \/ FollowedBy(expr, <<"N", "u", "m", "b", "e", "r">>, "(")
    \/ FollowedBy(expr, <<"p", "a", "r", "s", "e", "F", "l", "o", "a", "t">>, "(")
    \/ FollowedBy(expr, <<"p", "a", "r", "s", "e", "I", "n", "t">>, "(")

\* isCurrencyFormatting(expr)
isCurrencyFormatting(expr) ==
    \/ \E q1 \in {"'", "\""}, q2 \in {"'", "\""} :
          \E w \in {<<"c", "u", "r", "r", "e", "n", "c", "y">>, <<"U", "S", "D">>, <<"E", "U", "R">>, <<"G", "B", "P">>} :
             Includes(expr, <<q1>> \o w \o <<q2>>)
    \/ Includes(expr, <<"f", "o", "r", "m", "a", "t", "C", "u", "r", "r", "e", "n", "c", "y">>)
    \/ FollowedBy(expr, <<"$">>, "+")

\* isDateFormatting(expr)
isDateFormatting(expr) ==
    \/ FollowedBy(expr, <<".", "t", "o", "L", "o", "c", "a", "l", "e", "D", "a", "t", "e", "S", "t", "r", "i", "n", "g">>, "(")
    \/ FollowedBy(expr, <<".", "t", "o", "L", "o", "c", "a", "l", "e", "T", "i", "m", "e", "S", "t", "r", "i", "n", "g">>, "(")
    \/ FollowedBy(expr, <<".", "t", "o", "I", "S", "O", "S", "t", "r", "i", "n", "g">>, "(")
    \/ FollowedBy(expr, <<".", "t", "o", "D", "a", "t", "e", "S", "t", "r", "i", "n", "g">>, "(")
    \/ Includes(expr, <<"f", "o", "r", "m", "a", "t", "D", "a", "t", "e">>)
    \/ FollowedBy(expr, <<"n", "e", "w", " ", "D", "a", "t", "e">>, "(")
    \/ Includes(expr, <<"d", "a", "y", "j", "s">>)
    \/ Includes(expr, <<"m", "o", "m", "e", "n", "t">>)
    \/ Includes(expr, <<"d", "a", "t", "e", "-", "f", "n", "s">>)

\* String(counter)
DigitChar == <<"0", "1", "2", "3", "4", "5", "6", "7", "8", "9">>

RECURSIVE Decimal(_)
Decimal(n) ==
    IF n < 10 THEN <<DigitChar[n + 1]>>
    ELSE Decimal(n \div 10) \o <<DigitChar[(n % 10) + 1]>>

\* The loop that makes a parameter name unique: a name taken by another
\* expression gets the next counter appended.
uniqueNameFrom_asDerived(paramName, counter, uniqueName, originalParams, expr) ==
    uniqueName

RECURSIVE uniqueNameFrom(_, _, _, _, _)
uniqueNameFrom(paramName, counter, uniqueName, originalParams, expr) ==
    IF uniqueName \in DOMAIN originalParams /\ originalParams[uniqueName] # expr
    THEN uniqueNameFrom(paramName, counter + 1, paramName \o Decimal(counter),
                        originalParams, expr)
    ELSE uniqueName

\* The split of parseStringConcatenation at the `+` outside of quotes and
\* parentheses, from character i on.  inString is the open quote, or "".
RECURSIVE splitAtPlus(_, _, _, _, _, _)
splitAtPlus(text, i, current, inString, depth, parts) ==
    IF i > Len(text)
    THEN IF trim(current) # << >> THEN Append(parts, trim(current)) ELSE parts
    ELSE LET ch == text[i]
             prev == IF i > 1 THEN text[i - 1] ELSE ""
         IN  IF inString = "" /\ IsQuote(ch)
             THEN splitAtPlus(text, i + 1, Append(current, ch), ch, depth, parts)
             ELSE IF inString = ch /\ prev # "\\"
             THEN splitAtPlus(text, i + 1, Append(current, ch), "", depth, parts)
             ELSE IF inString = "" /\ ch = "("
             THEN splitAtPlus(text, i + 1, Append(current, ch), inString, depth + 1,
                              parts)
             ELSE IF inString = "" /\ ch = ")"
             THEN splitAtPlus(text, i + 1, Append(current, ch), inString, depth - 1,
                              parts)
             ELSE IF inString = "" /\ depth = 0 /\ ch = "+"
             THEN splitAtPlus(text, i + 1, << >>, inString, depth,
                              Append(parts, trim(current)))
             ELSE splitAtPlus(text, i + 1, Append(current, ch), inString, depth, parts)

\* /^['"`].*['"`]$/.test(part)
IsStringLiteral(part) ==
    /\ Len(part) >= 2
    /\ IsQuote(part[1])
    /\ IsQuote(part[Len(part)])
    /\ \A i \in 2..(Len(part) - 1) : part[i] # "\n"

\* The kind of a fragment of a concatenation.
concatType(trimmed) ==
    IF isNumberFormatting(trimmed) THEN "number"
    ELSE IF isCurrencyFormatting(trimmed) THEN "currency"
    ELSE IF isDateFormatting(trimmed) THEN "date"
    ELSE "concat"

\* The loop of parseStringConcatenation that builds the normalized text and
\* the parameters, from part i on.
RECURSIVE buildConcat(_, _, _)
buildConcat(parts, i, r) ==
    IF i > Len(parts) THEN r
    ELSE LET trimmed == trim(parts[i]) IN
         IF IsStringLiteral(trimmed)
         THEN buildConcat(parts, i + 1,
                [r EXCEPT !.normalizedText =
                    @ \o SubSeq(trimmed, 2, Len(trimmed) - 1)])
         ELSE IF trimmed # << >>
         THEN LET paramName == extractParamName(trimmed)
                  uniqueName == uniqueNameFrom(paramName, 1, paramName,
                                               r.originalParams, trimmed)
                  type == concatType(trimmed)
                  paramIndex == Len(r.params)
              IN  buildConcat(parts, i + 1,
                    [null |-> FALSE,
                     normalizedText |-> r.normalizedText \o <<"{">> \o uniqueName
                                            \o <<"}">>,
                     params |-> Append(r.params,
                                  [type |-> type, original |-> trimmed,
                                   paramName |-> uniqueName, expression |-> trimmed,
                                   start |-> paramIndex,
                                   end |-> paramIndex + Len(trimmed)]),
                     originalParams |-> (uniqueName :> trimmed) @@ r.originalParams,
                     hasAdvancedPatterns |->
                        r.hasAdvancedPatterns \/ type # "concat"])
         ELSE buildConcat(parts, i + 1, r)

\* parseStringConcatenation(text)
parseStringConcatenation(text) ==
    LET parts == splitAtPlus(text, 1, << >>, "", 0, << >>)
        hasStringLiteral == \E i \in 1..Len(parts) : IsStringLiteral(parts[i])
        hasVariable == \E i \in 1..Len(parts) :
                          /\ ~IsStringLiteral(parts[i])
                          /\ parts[i] # << >>
                          /\ IsIdStart(parts[i][1])
        r == buildConcat(parts, 1, [NoResult EXCEPT !.null = FALSE])
    IN  IF ~Includes(text, <<"+">>) THEN NoResult
        ELSE IF Len(parts) < 2 THEN NoResult
        ELSE IF ~hasStringLiteral \/ ~hasVariable THEN NoResult
        ELSE [r EXCEPT !.normalizedText = trim(@),
                       !.hasAdvancedPatterns = @ \/ Len(r.params) > 0]

\* stripHtmlTagsPreserveText(value): every <...> becomes a space.
RECURSIVE stripHtmlTagsPreserveText(_)
stripHtmlTagsPreserveText(value) ==
    IF value = << >> THEN value
    ELSE IF value[1] = "<" /\ \E j \in 2..Len(value) : value[j] = ">"
    THEN LET close == CHOOSE j \in 2..Len(value) :
                        /\ value[j] = ">"
                        /\ \A k \in 2..(j - 1) : value[k] # ">"
         IN  <<" ">> \o stripHtmlTagsPreserveText(SubSeq(value, close + 1, Len(value)))
    ELSE <<value[1]>> \o stripHtmlTagsPreserveText(Tail(value))

\* value.replace(/\s+/g, ' ')
RECURSIVE collapseSpace(_)
collapseSpace(value) ==
    IF value = << >> THEN value
    ELSE IF IsSpace(value[1])
    THEN <<" ">> \o collapseSpace(SubSeq(value, SkipSpace(value, 1), Len(value)))
    ELSE <<value[1]>> \o collapseSpace(Tail(value))

\* normalizeWhitespace(value)
normalizeWhitespace(value) == trim(collapseSpace(value))

\* The end of the match of /\$\{([^{}]*(?:\{[^{}]*\}[^{}]*)*)\}/ whose
\* content starts at position k: the position of the closing brace, or 0.
\* Braces inside the content nest one level deep.
RECURSIVE templateEnd(_, _)
templateEnd(text, k) ==
    IF k > Len(text) THEN 0
    ELSE IF text[k] = "}" THEN k
    ELSE IF text[k] = "{"
    THEN IF \E j \in (k + 1)..Len(text) : text[j] \in {"{", "}"}
         THEN LET j == CHOOSE j \in (k + 1)..Len(text) :
                         /\ text[j] \in {"{", "}"}
                         /\ \A m \in (k + 1)..(j - 1) : text[m] \notin {"{", "}"}
              IN  IF text[j] = "}" THEN templateEnd(text, j + 1) ELSE 0
         ELSE 0
    ELSE templateEnd(text, k + 1)

\* regex.exec(text) from position from on: the first ${...} match, as the
\* positions of its `$` and of its closing brace (0, 0 when there is none).
RECURSIVE nextTemplate(_, _)
nextTemplate(text, from) ==
    IF from + 2 > Len(text) THEN [start |-> 0, end |-> 0]
    ELSE IF /\ text[from] = "$"
            /\ text[from + 1] = "{"
            /\ templateEnd(text, from + 2) # 0
    THEN [start |-> from, end |-> templateEnd(text, from + 2)]
    ELSE nextTemplate(text, from + 1)

\* /\(.*\)/.test(expr)
HasCall(expr) ==
    \E i \in 1..Len(expr), j \in 1..Len(expr) :
        /\ i < j
        /\ expr[i] = "("
        /\ expr[j] = ")"
        /\ \A k \in (i + 1)..(j - 1) : expr[k] # "\n"

\* The kind of an interpolation of a template literal.
templateType(expr) ==
    IF isNumberFormatting(expr) THEN "number"
    ELSE IF isCurrencyFormatting(expr) THEN "currency"
    ELSE IF isDateFormatting(expr) THEN "date"
    ELSE IF HasCall(expr) THEN "method"
    ELSE "interpolation"

\* The loop of parseTemplateLiteral from position lastIndex + 1 on.
RECURSIVE parseTemplateFrom(_, _, _)
parseTemplateFrom(text, lastIndex, r) ==
    LET match == nextTemplate(text, lastIndex + 1) IN
    IF match.start = 0
    THEN [r EXCEPT !.normalizedText = @ \o SubSeq(text, lastIndex + 1, Len(text))]
    ELSE LET expr == trim(SubSeq(text, match.start + 2, match.end - 1))
             paramName == extractParamName(expr)
             type == templateType(expr)
             uniqueName == uniqueNameFrom(paramName, 1, paramName,
                                          r.originalParams, expr)
         IN  parseTemplateFrom(text, match.end,
                [null |-> FALSE,
                 normalizedText |->
                    r.normalizedText \o SubSeq(text, lastIndex + 1, match.start - 1)
                        \o <<"{">> \o uniqueName \o <<"}">>,
                 params |-> Append(r.params,
                              [type |-> type,
                               original |-> SubSeq(text, match.start, match.end),
                               paramName |-> uniqueName, expression |-> expr,
                               start |-> match.start - 1, end |-> match.end]),
                 originalParams |-> (uniqueName :> expr) @@ r.originalParams,
                 hasAdvancedPatterns |->
                    r.hasAdvancedPatterns \/ type # "interpolation"])

\* parseTemplateLiteral(text)
parseTemplateLiteral(text) ==
    parseTemplateFrom(text, 0, [NoResult EXCEPT !.null = FALSE])

\* The first match of /\{\{\s*([^}]+)\s*\}\}/ from position from on: two
\* opening braces, one character or more that is no closing brace, two
\* closing braces.
RECURSIVE nextMustache(_, _)
nextMustache(text, from) ==
    IF from + 4 > Len(text) THEN [start |-> 0, end |-> 0]
    ELSE IF /\ text[from] = "{"
            /\ text[from + 1] = "{"
            /\ text[from + 2] # "}"
            /\ \E j \in (from + 3)..(Len(text) - 1) :
                 /\ text[j] = "}"
                 /\ text[j + 1] = "}"
                 /\ \A k \in (from + 2)..(j - 1) : text[k] # "}"
    THEN [start |-> from,
          end |-> 1 + CHOOSE j \in (from + 3)..(Len(text) - 1) :
                        /\ text[j] = "}"
                        /\ \A k \in (from + 2)..(j - 1) : text[k] # "}"]
    ELSE nextMustache(text, from + 1)

\* s.replace(sub, rep): the first occurrence of sub is replaced.
ReplaceFirst(s, sub, rep) ==
    IF ~Includes(s, sub) THEN s
    ELSE LET i == CHOOSE i \in 1..Len(s) :
                    /\ StartsAt(s, i, sub)
                    /\ \A j \in 1..(i - 1) : ~StartsAt(s, j, sub)
         IN  SubSeq(s, 1, i - 1) \o rep \o SubSeq(s, i + Len(sub), Len(s))

\* The loop of the mustache path from position lastIndex + 1 on.
RECURSIVE parseMustacheFrom(_, _, _)
parseMustacheFrom(text, lastIndex, r) ==
    LET match == nextMustache(text, lastIndex + 1) IN
    IF match.start = 0 THEN r
    ELSE LET original == SubSeq(text, match.start, match.end)
             expr == trim(SubSeq(text, match.start + 2, match.end - 2))
             paramName == extractParamName(expr)
             uniqueName == uniqueNameFrom(paramName, 1, paramName,
                                          r.originalParams, expr)
         IN  parseMustacheFrom(text, match.end,
                [null |-> FALSE,
                 normalizedText |->
                    ReplaceFirst(r.normalizedText, original,
                                 <<"{">> \o uniqueName \o <<"}">>),
                 params |-> Append(r.params,
                              [type |-> "interpolation", original |-> original,
                               paramName |-> uniqueName, expression |-> expr,
                               start |-> match.start - 1, end |-> match.end]),
                 originalParams |-> (uniqueName :> expr) @@ r.originalParams,
                 hasAdvancedPatterns |-> TRUE])

\* /\{\{.*\}\}/.test(text)
HasMustache(text) ==
    \E i \in 1..Len(text), j \in 1..Len(text) :
        /\ i + 2 <= j
        /\ StartsAt(text, i, <<"{", "{">>)
        /\ StartsAt(text, j, <<"}", "}">>)
        /\ \A k \in (i + 2)..(j - 1) : text[k] # "\n"

\* lastPathSegment(expr): the part after the last dot
RECURSIVE lastPathSegment(_)
lastPathSegment(expr) ==
    IF \E i \in 1..Len(expr) : expr[i] = "."
    THEN lastPathSegment(SubSeq(expr,
            1 + (CHOOSE i \in 1..Len(expr) : expr[i] = "."
                                             /\ \A j \in 1..(i - 1) : expr[j] # "."),
            Len(expr)))
    ELSE expr

\* [\w.]
IsWordOrDot(c) == IsLower(c) \/ IsUpper(c) \/ IsDigit(c) \/ c \in {"_", "."}

RECURSIVE WordEnd(_, _)
WordEnd(s, i) == IF i <= Len(s) /\ IsWordOrDot(s[i]) THEN WordEnd(s, i + 1) ELSE i - 1

\* value.replace(/open\s*([\w.]+)\s*close/g, (_m, v) => `{${lastPathSegment(v)}}`)
\* for open, close the pairs {{ }} and ${ }.
RECURSIVE replacePlaceholders(_, _, _)
replacePlaceholders(value, open, close) ==
    IF value = << >> THEN value
    ELSE LET w == SkipSpace(value, 1 + Len(open))
             e == WordEnd(value, w)
             c == SkipSpace(value, e + 1)
         IN  IF StartsAt(value, 1, open) /\ e >= w /\ StartsAt(value, c, close)
             THEN <<"{">> \o lastPathSegment(SubSeq(value, w, e)) \o <<"}">>
                    \o replacePlaceholders(
                         SubSeq(value, c + Len(close), Len(value)), open, close)
             ELSE <<value[1]>> \o replacePlaceholders(Tail(value), open, close)

\* normalizeDynamicPlaceholders(value)
normalizeDynamicPlaceholders(value) ==
    replacePlaceholders(replacePlaceholders(value, <<"{", "{">>, <<"}", "}">>),
                        <<"$", "{">>, <<"}">>)

\* normalizeSelectedTextForI18n(value)
normalizeSelectedTextForI18n(value) ==
    normalizeWhitespace(stripHtmlTagsPreserveText(normalizeDynamicPlaceholders(value)))

\* \w, and the end of the run of \w that starts at position i
IsWordChar(c) == IsLower(c) \/ IsUpper(c) \/ IsDigit(c) \/ c = "_"

RECURSIVE NameEnd(_, _)
NameEnd(s, i) == IF i <= Len(s) /\ IsWordChar(s[i]) THEN NameEnd(s, i + 1) ELSE i - 1

\* extractParamsFromNormalizedText(value) from position i on: the names of
\* the placeholders /\{\s*([A-Za-z_][A-Za-z0-9_]*)\s*\}/, each once, in the
\* order of their first use.
RECURSIVE extractParamsFrom(_, _, _)
extractParamsFrom(value, i, names) ==
    IF i > Len(value) THEN names
    ELSE LET w == SkipSpace(value, i + 1)
             e == IF w <= Len(value) /\ IsWordChar(value[w]) /\ ~IsDigit(value[w])
                  THEN NameEnd(value, w) ELSE w - 1
             c == SkipSpace(value, e + 1)
         IN  IF value[i] = "{" /\ e >= w /\ c <= Len(value) /\ value[c] = "}"
             THEN LET name == SubSeq(value, w, e)
                  IN  extractParamsFrom(value, c + 1,
                        IF \E n \in 1..Len(names) : names[n] = name
                        THEN names ELSE Append(names, name))
             ELSE extractParamsFrom(value, i + 1, names)

extractParamsFromNormalizedText(value) == extractParamsFrom(value, 1, << >>)

\* The first "}" of s at or after position i (0 when there is none).
FirstClose(s, i) ==
    IF \E j \in i..Len(s) : s[j] = "}"
    THEN CHOOSE j \in i..Len(s) : s[j] = "}" /\ \A k \in i..(j - 1) : s[k] # "}"
    ELSE 0

\* The match at position i of
\* /\$\{\s*(param[^}]*)\s*\}|\{\{\s*(param[^}]*)\s*\}\}/: its group, or << >>.
originalAt(rawText, i, param) ==
    LET w == SkipSpace(rawText, i + 2)
        j == FirstClose(rawText, w + Len(param))
    IN  IF /\ StartsAt(rawText, i, <<"$", "{">>)
           /\ StartsAt(rawText, w, param)
           /\ j # 0
        THEN SubSeq(rawText, w, j - 1)
        ELSE IF /\ StartsAt(rawText, i, <<"{", "{">>)
                /\ StartsAt(rawText, w, param)
                /\ j # 0
                /\ StartsAt(rawText, j, <<"}", "}">>)
        THEN SubSeq(rawText, w, j - 1)
        ELSE << >>

\* The expression the fallback maps a parameter back to: the group of the
\* first match in the raw text, else the parameter itself.
originalOf(rawText, param) ==
    IF \E i \in 1..Len(rawText) : originalAt(rawText, i, param) # << >>
    THEN originalAt(rawText,
                    CHOOSE i \in 1..Len(rawText) :
                        /\ originalAt(rawText, i, param) # << >>
                        /\ \A k \in 1..(i - 1) : originalAt(rawText, k, param) = << >>,
                    param)
    ELSE param

\* The fallback of advancedNormalizeString: the basic normalization.
basicNormalize(rawText, text) ==
    LET basicNormalized == normalizeSelectedTextForI18n(text)
        basicParams == extractParamsFromNormalizedText(basicNormalized)
    IN  [null |-> FALSE,
         normalizedText |-> basicNormalized,
         params |-> [i \in 1..Len(basicParams) |->
                        [type |-> "interpolation", original |-> basicParams[i],
                         paramName |-> basicParams[i],
                         expression |-> originalOf(rawText, basicParams[i]),
                         start |-> i - 1, end |-> i]],
         originalParams |-> [p \in {basicParams[i] : i \in 1..Len(basicParams)} |->
                                originalOf(rawText, p)],
         hasAdvancedPatterns |-> FALSE]

\* The contexts a selection is normalized in.
Contexts == {"vue-template", "jsx", "script"}

\* The markup is stripped from the text of a result and its whitespace is
\* collapsed.
Cleaned(r) ==
    [r EXCEPT !.normalizedText = normalizeWhitespace(stripHtmlTagsPreserveText(@))]

\* The text that advancedNormalizeString parses: rawText trimmed and without
\* the quotes around it.
unquoted(rawText) ==
    LET trimmed == trim(rawText)
    IN  IF /\ trimmed # << >>
           /\ IsQuote(trimmed[1])
           /\ IsQuote(trimmed[Len(trimmed)])
           /\ trimmed[Len(trimmed)] = trimmed[1]
        THEN SubSeq(trimmed, 2, Len(trimmed) - 1)
        ELSE trimmed

\* The branch of advancedNormalizeString that returns the result.
normalizationPath(rawText, context) ==
    LET trimmed == trim(rawText)
        text == unquoted(rawText)
        isTemplate == \/ (trimmed # << >> /\ trimmed[1] = Backtick)
                      \/ Includes(text, <<"$", "{">>)
        concatResult == parseStringConcatenation(rawText)
    IN  IF isTemplate /\ Len(parseTemplateLiteral(text).params) > 0 THEN "template"
        ELSE IF ~concatResult.null /\ Len(concatResult.params) > 0 THEN "concat"
        ELSE IF context = "vue-template" /\ HasMustache(text) THEN "mustache"
        ELSE "basic"

\* advancedNormalizeString(rawText, context)
advancedNormalizeString(rawText, context) ==
    LET text == unquoted(rawText)
        path == normalizationPath(rawText, context)
    IN  CASE path = "template" -> Cleaned(parseTemplateLiteral(text))
          [] path = "concat" -> Cleaned(parseStringConcatenation(rawText))
          [] path = "mustache" ->
                Cleaned(parseMustacheFrom(text, 0,
                        [NoResult EXCEPT !.null = FALSE, !.normalizedText = text]))
          [] OTHER -> basicNormalize(rawText, text)

\* paramEntries.join(', ')
RECURSIVE Join(_, _)
Join(entries, sep) ==
    IF entries = << >> THEN << >>
    ELSE IF Len(entries) = 1 THEN entries[1]
    ELSE entries[1] \o sep \o Join(Tail(entries), sep)

\* The entry of a parameter in the object literal of the call.
paramEntry_longhand(result, param) ==
    LET expr == IF param.paramName \in DOMAIN result.originalParams
                   /\ result.originalParams[param.paramName] # << >>
                THEN result.originalParams[param.paramName]
                ELSE param.expression
    IN  param.paramName \o <<":", " ">> \o expr

paramEntry(result, param) ==
    LET expr == IF param.paramName \in DOMAIN result.originalParams
                   /\ result.originalParams[param.paramName] # << >>
                THEN result.originalParams[param.paramName]
                ELSE param.expression
    IN  IF expr = param.paramName THEN param.paramName
        ELSE param.paramName \o <<":", " ">> \o expr

\* generateTCallExpression(keyPath, result)
generateTCallExpression(keyPath, result) ==
    IF Len(result.params) = 0
    THEN <<"t", "(", "'">> \o keyPath \o <<"'", ")">>
    ELSE <<"t", "(", "'">> \o keyPath \o <<"'", ",", " ", "{", " ">>
            \o Join([i \in 1..Len(result.params) |->
                        paramEntry(result, result.params[i])], <<",", " ">>)
            \o <<" ", "}", ")">>

\* The selections that are normalized: string literals concatenated with
\* expressions, template literals, mustache text and plain text.
NormLiterals == {<<"'", "T", "o", "t", "a", "l", ":", " ", "'">>, <<"\"", "H", "i", " ", "\"">>}

NormExprs ==
    {<<"t", "o", "t", "a", "l", ".", "t", "o", "F", "i", "x", "e", "d", "(", "2", ")">>, <<"t", "o", "t", "a", "l">>, <<"u", "s", "e", "r", ".", "g", "e", "t", "N", "a", "m", "e", "(", ")">>, <<"u", "s", "e", "r", ".", "n", "a", "m", "e">>, <<"n", "a", "m", "e">>,
     <<"p", "r", "i", "c", "e", ".", "t", "o", "L", "o", "c", "a", "l", "e", "S", "t", "r", "i", "n", "g", "(", ")">>}

Plus == <<" ", "+", " ">>

NormSelections ==
    {l \o Plus \o e : l \in NormLiterals, e \in NormExprs}
    \cup {e \o Plus \o l : l \in NormLiterals, e \in NormExprs}
    \cup {<<"\"", "H", "i", " ", "\"">> \o Plus \o e \o Plus \o <<"'", " ", "'">> \o Plus \o f :
            e \in {<<"u", "s", "e", "r", ".", "n", "a", "m", "e">>, <<"t", "o", "t", "a", "l">>}, f \in {<<"n", "a", "m", "e">>, <<"u", "s", "e", "r", ".", "n", "a", "m", "e">>}}
    \cup {<<Backtick, "H", "e", "l", "l", "o", " ", "$", "{">> \o e \o <<"}", "!", Backtick>> : e \in NormExprs}
    \cup {<<"H", "e", "l", "l", "o", " ", "{", "{", " ">> \o e \o <<" ", "}", "}", "!">> : e \in NormExprs}
    \cup {<<"$", "{", "u", "s", "e", "r", ".", "n", "a", "m", "e", "}", " ", "a", "n", "d", " ", "$", "{", "n", "a", "m", "e", "}">>, <<"{", "{", " ", "u", "s", "e", "r", ".", "n", "a", "m", "e", " ", "}", "}", " ", "a", "n", "d", " ", "{", "{", " ", "n", "a", "m", "e", " ", "}", "}">>,
          <<"W", "e", "l", "c", "o", "m", "e", " ", "t", "o", " ", "o", "u", "r", " ", "a", "p", "p">>, <<"\"", "2", " ", "+", " ", "2", " ", "=", " ", "f", "o", "u", "r", "\"">>, <<"'", "a", "+", "b", "'">>,
          <<"<", "b", ">", "H", "i", "<", "/", "b", ">", " ", " ", " ", "t", "h", "e", "r", "e">>, <<"H", "i", " ", "{", "n", "a", "m", "e", "}">>, <<" ", " ", "'", "S", "a", "v", "e", "d", "'", " ", " ">>,
          <<Backtick, "$", "{", "u", "s", "e", "r", ".", "n", "a", "m", "e", "}", ",", " ", "$", "{", "n", "a", "m", "e", "}", ",", " ", "$", "{", "u", "s", "e", "r", ".", "n", "a", "m", "e", "}", ",", " ", "$", "{", "i", "t", "e", "m", ".", "n", "a", "m", "e", "}", Backtick>>,
          <<"a", ".", "n", " ", "+", " ", "n", " ", "+", " ", "a", ".", "n", " ", "+", " ", "b", ".", "n">>,
          <<"{", "{", " ", "u", "s", "e", "r", ".", "n", "a", "m", "e", " ", "}", "}", ",", " ", "{", "{", " ", "n", "a", "m", "e", " ", "}", "}", ",", " ", "{", "{", " ", "u", "s", "e", "r", ".", "n", "a", "m", "e", " ", "}", "}", ",", " ", "{", "{", " ", "i", "t", "e", "m", ".", "n", "a", "m", "e", " ", "}", "}">>,
          <<"$", "{", "n", "a", "m", "e", "1", "}", " ", "$", "{", "u", "s", "e", "r", ".", "n", "a", "m", "e", "}", " ", "$", "{", "n", "a", "m", "e", "}">>}

\* The key paths under which the normalized texts are stored.
NormKeyPaths == {<<"c", "o", "m", "p", "o", "n", "e", "n", "t", "s", ".", "H", "e", "a", "d", "e", "r", ".", "0", "0", "0", "0">>, <<"a", ".", "0", "0", "0", "1">>}

InitNormalize ==
    /\ IdleAlloc
    /\ IdleSteps
    /\ lookup = NoLookup
    /\ sync = NoSyncCheck
    /\ \E rawText \in NormSelections, context \in Contexts :
            norm = [NoNormalization EXCEPT !.rawText = rawText, !.context = context]
    /\ isProcessingCommand = FALSE
    /\ inv = [i \in Invocations |-> NewInvocation]
    /\ justWrote = NothingWritten
    /\ watch = NoNotification
    /\ source = [f \in SourceFiles |-> [calls |-> << >>, decl |-> FALSE]]
    /\ activeEditor = FileAB
    /\ workspaceFolders = <<"A", "B">>
    /\ cliConfigs = [p \in Projects |-> IF p = "A" THEN ConfigA ELSE NoConfig]
    /\ files = NoFiles
    /\ dirs = {DirA}
    /\ savedDir = [p \in Projects |-> IF p = "A" THEN DirA ELSE NoDir]
    /\ localeWatcher = DirA
    /\ projectContext = [projectRoot |-> "A", localesDir |-> DirA,
                         baseLanguage |-> "en"]
    /\ activePreviewLanguage = "en"
    /\ localeCache = Loaded(files, {})
    /\ projectContextCache = << >>

\* start.ts 2729: the handler normalizes the selected text.
Normalize ==
    /\ ~norm.done
    /\ norm' = [norm EXCEPT !.done = TRUE,
                            !.result = advancedNormalizeString(norm.rawText,
                                                               norm.context)]
    /\ UNCHANGED <<keyVars, worldVars, fsVars, ctxVars, projectContextCache, watch,
                   allocVars, lookup, sync,
                   stepVars>>

\* start.ts 2789: the handler builds the call that replaces the selection.
GenerateTCall(keyPath) ==
    /\ norm.done
    /\ ~norm.generated
    /\ norm' = [norm EXCEPT !.generated = TRUE, !.keyPath = keyPath,
                            !.expr = generateTCallExpression(keyPath, norm.result)]
    /\ UNCHANGED <<keyVars, worldVars, fsVars, ctxVars, projectContextCache, watch,
                   allocVars, lookup, sync,
                   stepVars>>

NextNormalize ==
    \/ Normalize
    \/ \E keyPath \in NormKeyPaths : GenerateTCall(keyPath)

SpecNormalize == InitNormalize /\ [][NextNormalize]_vars

-----------------------------------------------------------------------------
(***************************************************************************)
(* SpecVue: add-key actions on one source document.  A document is the     *)
(* sequence of its characters; an add-key action replaces the selection by *)
(* the call expression and then ensures the Vue translation binding.       *)
-----------------------------------------------------------------------------
(***************************************************************************)
(* SpecHash: generateKeyHash as JavaScript computes it.  hash is a Number: *)
(* hash * 33 is a product of doubles, `^` takes the int32 of its operands  *)
(* and gives a signed int32, `>>> 0` gives the unsigned value.             *)
(***************************************************************************)

MaxHashLen == 5     \* the length of the strings that are hashed

\* The integers below 2^53 in magnitude are exact as doubles.
SafeBits == 53

\* value.charCodeAt(i) of the strings: NUL, "a", a high surrogate, 0xffff.
HashCodes == {0, 97, 55357, 65535}

HashStrings == UNION {[1..n -> HashCodes] : n \in 0..MaxHashLen}

\* hash * 33, as the integer it is
NumberTimes33(x) ==
    LET lo == x.lo * 33
    IN  [hi |-> (x.hi * 33) + (lo \div Half), lo |-> lo % Half]

\* The product is an integer that a double holds exactly.
ExactAsDouble(x) ==
    LET top == x.hi \div Half
    IN  top >= -(2 ^ (SafeBits - HashBits)) /\ top < 2 ^ (SafeBits - HashBits)

\* ToInt32(x): x modulo 2^32, in -2^31 .. 2^31 - 1
ToInt32(x) ==
    LET hiU == x.hi % Half
    IN  [hi |-> IF hiU >= Half \div 2 THEN hiU - Half ELSE hiU, lo |-> x.lo]

\* a ^ code for an int32 a and a character code (16 bits)
XorCode(a, code) == [hi |-> a.hi, lo |-> BitXor(a.lo, code)]

\* hash >>> 0
ToUint32(x) == [hi |-> x.hi % Half, lo |-> x.lo]

\* n.toString(16) for 0 <= n < 2^16
RECURSIVE HexOf(_)
HexOf(n) ==
    IF n < 16 THEN <<HexDigit[n + 1]>>
    ELSE HexOf(n \div 16) \o <<HexDigit[(n % 16) + 1]>>

\* unsignedHash.toString(16)
toString16(u) == IF u.hi = 0 THEN HexOf(u.lo) ELSE HexOf(u.hi) \o Hex4(u.lo)

\* s.padStart(targetLength, fill)
padStart_asIs(s, targetLength, fill) == s

padStart(s, targetLength, fill) ==
    IF Len(s) >= targetLength THEN s
    ELSE [k \in 1..(targetLength - Len(s)) |-> fill] \o s

InitHash ==
    /\ IdleAlloc
    /\ IdleAddKey
    /\ lookup = NoLookup
    /\ sync = NoSyncCheck
    /\ norm = NoNormalization
    /\ mint = NoMint
    /\ nearest = NoNearest
    /\ alert = NoAlert
    /\ vue = NoVue
    /\ \E value \in HashStrings : hashing = [NoHashing EXCEPT !.value = value]

\* hash = (hash * 33) ^ value.charCodeAt(i): an iteration of the loop.
\* exact: every product so far is exact as a double; wrapped: a product so
\* far was outside the int32 range.
HashLoop ==
    /\ ~hashing.done
    /\ hashing.i < Len(hashing.value)
    /\ LET product == NumberTimes33(hashing.hash)
       IN  hashing' = [hashing EXCEPT
                !.i = hashing.i + 1,
                !.hash = XorCode(ToInt32(product), hashing.value[hashing.i + 1]),
                !.exact = hashing.exact /\ ExactAsDouble(product),
                !.wrapped = hashing.wrapped \/ ToInt32(product) # product]
    /\ UNCHANGED <<keyVars, worldVars, fsVars, ctxVars, projectContextCache, watch,
                   allocVars, fnVars, exceptHashing>>

\* return (hash >>> 0).toString(16).padStart(8, '0')
HashReturn ==
    /\ ~hashing.done
    /\ hashing.i = Len(hashing.value)
    /\ hashing' = [hashing EXCEPT
            !.done = TRUE,
            !.out = padStart(toString16(ToUint32(hashing.hash)), 8, "0")]
    /\ UNCHANGED <<keyVars, worldVars, fsVars, ctxVars, projectContextCache, watch,
                   allocVars, fnVars, exceptHashing>>

NextHash == HashLoop \/ HashReturn

SpecHash == InitHash /\ [][NextHash]_vars

(***************************************************************************)

MaxAddKeys == 2     \* add-key actions on the document in a behaviour

\* The character at position i, or nothing past the end.
CharAt(s, i) == IF i >= 1 /\ i <= Len(s) THEN s[i] ELSE ""

\* text.indexOf(sub, from): 0 when sub does not occur.
RECURSIVE IndexOf(_, _, _)
IndexOf(s, sub, from) ==
    IF from + Len(sub) - 1 > Len(s) THEN 0
    ELSE IF StartsAt(s, from, sub) THEN from
    ELSE IndexOf(s, sub, from + 1)

\* /\.vue$/i.test(filePath)
isVueFile(filePath) ==
    /\ Len(filePath) >= 4
    /\ toLowerCase(SubSeq(filePath, Len(filePath) - 3, Len(filePath))) = <<".", "v", "u", "e">>

\* /const\s*\{\s*t\s*\}\s*=\s*useI18n\s*\(\s*\)/ matches at position i.
DeclarationAt(s, i) ==
    LET b == SkipSpace(s, i + 5)
        c == SkipSpace(s, b + 1)
        d == SkipSpace(s, c + 1)
        e == SkipSpace(s, d + 1)
        f == SkipSpace(s, e + 1)
        g == SkipSpace(s, f + 7)
        h == SkipSpace(s, g + 1)
    IN  /\ StartsAt(s, i, <<"c", "o", "n", "s", "t">>)
        /\ CharAt(s, b) = "{"
        /\ CharAt(s, c) = "t"
        /\ CharAt(s, d) = "}"
        /\ CharAt(s, e) = "="
        /\ StartsAt(s, f, <<"u", "s", "e", "I", "1", "8", "n">>)
        /\ CharAt(s, g) = "("
        /\ CharAt(s, h) = ")"

hasUseI18nTDeclaration_literal(block) == Includes(block, <<"c", "o", "n", "s", "t", " ", "{", " ", "t", " ", "}", " ", "=", " ", "u", "s", "e", "I", "1", "8", "n", "(", ")", ";">>)

hasUseI18nTDeclaration(block) == \E i \in 1..Len(block) : DeclarationAt(block, i)

\* How many declarations a text holds.
Declarations(s) == Cardinality({i \in 1..Len(s) : DeclarationAt(s, i)})

\* /<tag(?:\s[^>]*)?>/i matches at position i: the position of its last
\* character, or 0.
OpenTagEnd(s, i, tag) ==
    LET n == i + Len(tag) IN
    IF CharAt(s, i) # "<" \/ n - 1 > Len(s) THEN 0
    ELSE IF toLowerCase(SubSeq(s, i, n - 1)) # tag THEN 0
    ELSE IF CharAt(s, n) = ">" THEN n
    ELSE IF IsSpace(CharAt(s, n)) THEN IndexOf(s, <<">">>, n + 1)
    ELSE 0

\* The first match of the open tag from position i on: its position, or 0.
RECURSIVE OpenTagFrom(_, _, _)
OpenTagFrom(s, i, tag) ==
    IF i > Len(s) THEN 0
    ELSE IF OpenTagEnd(s, i, tag) # 0 THEN i
    ELSE OpenTagFrom(s, i + 1, tag)

OpenTagIndex(s, tag) == OpenTagFrom(s, 1, tag)

\* text.slice(0, pos) + inserted + text.slice(pos), pos counted from 0
InsertAt(s, pos, inserted) ==
    SubSeq(s, 1, pos) \o inserted \o SubSeq(s, pos + 1, Len(s))

\* ensureVueTDeclaration(editor): the text the edit it asks for would leave,
\* or the text itself when it asks for none.
ensureVueTDeclaration(filePath, text) ==
    IF ~isVueFile(filePath) THEN text
    ELSE IF hasUseI18nTDeclaration(text) THEN text
    ELSE
    LET openIdx == OpenTagIndex(text, <<"<", "s", "c", "r", "i", "p", "t">>)
    IN  IF openIdx # 0
        THEN LET insertPos == OpenTagEnd(text, openIdx, <<"<", "s", "c", "r", "i", "p", "t">>)
                 closeIdx == IndexOf(text, <<"<", "/", "s", "c", "r", "i", "p", "t", ">">>, insertPos + 1)
                 scriptBlock == IF closeIdx # 0
                                THEN SubSeq(text, insertPos + 1, closeIdx - 1)
                                ELSE << >>
             IN  IF hasUseI18nTDeclaration(scriptBlock) THEN text
                 ELSE InsertAt(text, insertPos, <<"\n", "c", "o", "n", "s", "t", " ", "{", " ", "t", " ", "}", " ", "=", " ", "u", "s", "e", "I", "1", "8", "n", "(", ")", "\n">>)
        ELSE LET tplIdx == OpenTagIndex(text, <<"<", "t", "e", "m", "p", "l", "a", "t", "e">>)
                 scriptTag == <<"<", "s", "c", "r", "i", "p", "t", " ", "s", "e", "t", "u", "p", " ", "l", "a", "n", "g", "=", "\"", "t", "s", "\"", ">", "\n", "c", "o", "n", "s", "t", " ", "{", " ", "t", " ", "}", " ", "=", " ", "u", "s", "e", "I", "1", "8", "n", "(", ")", "\n", "<", "/", "s", "c", "r", "i", "p", "t", ">", "\n", "\n">>
             IN  IF tplIdx # 0 THEN InsertAt(text, tplIdx - 1, scriptTag)
                 ELSE scriptTag \o text

VueDocs ==
    {<<"<", "t", "e", "m", "p", "l", "a", "t", "e", ">", "\n", "<", "p", ">", "H", "i", "<", "/", "p", ">", "\n", "<", "/", "t", "e", "m", "p", "l", "a", "t", "e", ">">>,
     <<"<", "s", "c", "r", "i", "p", "t", " ", "s", "e", "t", "u", "p", ">", "\n", "c", "o", "n", "s", "t", " ", "n", " ", "=", " ", "1", "\n", "<", "/", "s", "c", "r", "i", "p", "t", ">", "\n", "<", "t", "e", "m", "p", "l", "a", "t", "e", ">", "\n", "<", "p", ">", "H", "i", "<", "/", "p", ">", "\n", "<", "/", "t", "e", "m", "p", "l", "a", "t", "e", ">">>,
     <<"<", "s", "c", "r", "i", "p", "t", " ", "s", "e", "t", "u", "p", ">", "\n", "c", "o", "n", "s", "t", " ", "{", "t", "}", "=", "u", "s", "e", "I", "1", "8", "n", "(", " ", ")", "\n", "<", "/", "s", "c", "r", "i", "p", "t", ">", "\n", "<", "t", "e", "m", "p", "l", "a", "t", "e", ">", "\n", "<", "p", ">", "H", "i", "<", "/", "p", ">", "\n", "<", "/", "t", "e", "m", "p", "l", "a", "t", "e", ">">>,
     <<"<", "S", "C", "R", "I", "P", "T", " ", "l", "a", "n", "g", "=", "\"", "t", "s", "\"", ">", "\n", "c", "o", "n", "s", "t", " ", "{", " ", "t", ",", " ", "d", " ", "}", " ", "=", " ", "u", "s", "e", "I", "1", "8", "n", "(", ")", "\n", "<", "/", "S", "C", "R", "I", "P", "T", ">", "\n", "<", "p", ">", "H", "i", "<", "/", "p", ">">>,
     <<"<", "p", ">", "H", "i", "<", "/", "p", ">", "\n", "<", "p", ">", "B", "y", "e", "<", "/", "p", ">">>}

\* The files and documents a behaviour starts with.
VueInputs ==
    {[filePath |-> f, text |-> d] : f \in {<<"A", "p", "p", ".", "v", "u", "e">>, <<"A", "p", "p", ".", "V", "U", "E">>}, d \in VueDocs}
    \cup {[filePath |-> <<"v", "u", "e", ".", "t", "s">>, text |-> <<"c", "o", "n", "s", "t", " ", "s", " ", "=", " ", "'", "H", "i", "'">>]}

\* The call expression that replaces a selection: in mustaches when the
\* selection is the text after a tag, else as it is.
CallExpression(s, sel) ==
    IF CharAt(s, sel.start - 1) = ">" THEN <<"{", "{", " ", "t", "(", "'", "a", ".", "0", "0", "0", "0", "'", ")", " ", "}", "}">> ELSE <<"t", "(", "'", "a", ".", "0", "0", "0", "0", "'", ")">>

\* The selections of the model: a whole line, or the text between two tags.
LineStarts(s) == {i \in 1..Len(s) : i = 1 \/ s[i - 1] \in {"\n", ">"}}

RECURSIVE SelectionEndFrom(_, _)
SelectionEndFrom(s, j) ==
    IF j > Len(s) \/ s[j] \in {"\n", "<"} THEN j ELSE SelectionEndFrom(s, j + 1)

SelectionEnd(s, a) == SelectionEndFrom(s, a + 1)

VueSelections(s) ==
    {[start |-> a, end |-> SelectionEnd(s, a)] :
        a \in {i \in LineStarts(s) : CharAt(s, i) \notin {"\n", ""}}}

\* edit.replace(selection, expr)
ReplaceRange(s, sel, expr) ==
    SubSeq(s, 1, sel.start - 1) \o expr \o SubSeq(s, sel.end, Len(s))

InitVue ==
    /\ IdleAlloc
    /\ IdleAddKey
    /\ lookup = NoLookup
    /\ sync = NoSyncCheck
    /\ norm = NoNormalization
    /\ hashing = NoHashing
    /\ mint = NoMint
    /\ nearest = NoNearest
    /\ alert = NoAlert
    /\ \E input \in VueInputs :
            vue = [NoVue EXCEPT !.filePath = input.filePath, !.text = input.text]

\* An add-key action on the document: the selection is replaced by the call
\* expression (withEdit), then ensureVueTDeclaration runs on the document as
\* it is then; each of the two edits is applied or not.  asked is the text
\* ensureVueTDeclaration read, inserted counts the declarations inserted.
AddKeyOnDocument(sel, editApplied, declApplied) ==
    /\ vue.adds < MaxAddKeys
    /\ LET expr == CallExpression(vue.text, sel)
           edited == IF editApplied THEN ReplaceRange(vue.text, sel, expr)
                     ELSE vue.text
           updated == IF isVueFile(vue.filePath)
                      THEN ensureVueTDeclaration(vue.filePath, edited)
                      ELSE edited
           after == IF declApplied THEN updated ELSE edited
       IN  vue' = [vue EXCEPT !.text = after, !.asked = edited,
                              !.adds = vue.adds + 1,
                              !.inserted = vue.inserted + (IF after # edited THEN 1 ELSE 0)]
    /\ UNCHANGED <<keyVars, worldVars, fsVars, ctxVars, projectContextCache, watch,
                   allocVars, fnVars, exceptVue>>

NextVue ==
    \E sel \in VueSelections(vue.text),
       editApplied \in BOOLEAN, declApplied \in BOOLEAN :
        AddKeyOnDocument(sel, editApplied, declApplied)

SpecVue == InitVue /\ [][NextVue]_vars

-----------------------------------------------------------------------------
(* Claims about the key allocator, checked under SpecAlloc.                *)

NumericLeafPaths(d) ==
    {p \in DOMAIN d : IsNumericLeafKey(Last(p)) /\ d[p] # OBJ}

UniqueNumericLeaves(d) ==
    \A p, q \in NumericLeafPaths(d) : Last(p) = Last(q) => p = q

MintedIds == {call.minted[i] : i \in 1..Len(call.minted)}

\* C1: after any sequence of addStringToBaseLanguage calls every 4-digit key
\* that holds a string is unique in the whole document, and every id a call
\* minted (for the new text and for each demoted string) is minted once and
\* was no numeric leaf key of the document before the call.
C1_GloballyUniqueLeafKeys ==
    /\ UniqueNumericLeaves(doc)
    /\ MintedIds \cap collectAllNumericLeafKeys(pre) = {}
    /\ Cardinality(MintedIds) = Len(call.minted)

\* A call that demoted a string on a document that already had numeric leaves.
C1_Witness ==
    /\ ncalls > 0
    /\ Len(call.minted) >= 2
    /\ collectAllNumericLeafKeys(pre) # {}

\* A string of the document before the call that lies on the prefix path.
Demoted(p) == IsString(pre, p) /\ IsPrefixOf(p, call.parts)

\* C3: merge semantics: every key path that led to a value before the call
\* leads to the same value afterwards, except a string on the prefix path.
C3_MergeKeepsEveryPriorValue ==
    ncalls > 0 =>
        \A p \in DOMAIN pre : ~Demoted(p) => Has(doc, p) /\ doc[p] = pre[p]

\* C4: a string found at a segment of the prefix path is kept, under a
\* freshly minted 4-digit key, inside the object that replaces it; when it
\* was found at the last segment the new object holds the old string and the
\* new text under two distinct 4-digit keys.
C4_DemotionKeepsOldString ==
    ncalls > 0 =>
        \A i \in 1..Len(call.parts) :
            LET p == SubSeq(call.parts, 1, i)
                newLeaf == Append(call.parts, Last(call.minted))
            IN  IsString(pre, p) =>
                    /\ IsObject(doc, p)
                    /\ \E q \in DOMAIN doc \ {newLeaf} :
                          /\ IsStrictPrefixOf(p, q)
                          /\ doc[q] = pre[p]
                          /\ Last(q) \in MintedIds \ call.used
                    /\ i = Len(call.parts) =>
                          \E k1, k2 \in Ids :
                             /\ k1 # k2
                             /\ IsString(doc, Append(p, k1))
                             /\ doc[Append(p, k1)] = pre[p]
                             /\ Append(p, k2) = newLeaf
                             /\ IsString(doc, newLeaf)
                             /\ doc[newLeaf] = call.text

\* addStringToBaseLanguage(D, "a.b", "new") while D.a.b is the string "old".
C4_Witness ==
    /\ ncalls > 0
    /\ call.parts = <<"a", "b">>
    /\ call.text = "new"
    /\ IsString(pre, <<"a", "b">>)
    /\ pre[<<"a", "b">>] = "old"

-----------------------------------------------------------------------------
(* Claims about the add-key command, checked under SpecAddKey.             *)

\* The base-language document of invocation h after the handler ended.
WrittenDoc(h) == h.after.files[h.path.dir][h.path.lang]

\* The base-language file of h holds the new text under the returned key.
FileHasNewKey(h) ==
    /\ h.key # << >>
    /\ WrittenDoc(h).kind = "json"
    /\ IsString(WrittenDoc(h).doc, SplitFilter(h.key))
    /\ WrittenDoc(h).doc[SplitFilter(h.key)] = h.text

\* The source selection of h has been replaced by a call naming the key.
SourceHasCall(h) ==
    /\ h.edited
    /\ \E n \in 1..Len(source[h.file].calls) : source[h.file].calls[n] = h.key

\* C5: at most one add-key invocation is in flight; the busy flag is set
\* exactly while one is; an invocation that arrives meanwhile has written no
\* locale file and edited no source, and it never runs later: once dropped,
\* its record never changes again.
C5_OneAddKeyInFlight ==
    /\ [](/\ Cardinality(InFlight) <= 1
          /\ isProcessingCommand <=> (InFlight # {})
          /\ \A i \in Invocations :
                inv[i].pc = "dropped" =>
                    /\ inv[i].written = {}
                    /\ ~inv[i].edited
                    /\ inv[i].before = NoSnapshot)
    /\ [][\A i \in Invocations : inv[i].pc = "dropped" => inv'[i] = inv[i]]_vars

\* An invocation was dropped while another is suspended at the await of its
\* source edit, having written the base-language file.
C5_Witness ==
    \E i, j \in Invocations :
        /\ inv[i].pc = "dropped"
        /\ inv[j].pc = "awaitEdit"
        /\ inv[j].written # {}

\* C6: after every ended add-key either the base-language file holds the new
\* key and the source selection has been replaced by a call naming it, or
\* neither the locale files nor the source document were changed.
C6_FileAndSourceBothOrNeither ==
    \A i \in Invocations :
        inv[i].pc = "done" =>
            \/ FileHasNewKey(inv[i]) /\ SourceHasCall(inv[i])
            \/ inv[i].after = inv[i].before /\ ~inv[i].edited

\* The base-language file of h existed with content that is no JSON when the
\* command was invoked.
BaseFileWasInvalid(h) ==
    /\ h.path # NoPath
    /\ h.before.files[h.path.dir][h.path.lang].kind = "invalid"

\* C7: when the existing base-language file does not parse as JSON the
\* command has ended with an error message, every locale file is what it was
\* and the source document is unedited.
C7_InvalidBaseJsonChangesNothing ==
    \A i \in Invocations :
        BaseFileWasInvalid(inv[i]) =>
            /\ inv[i].pc = "done"
            /\ inv[i].outcome = "invalidJson"
            /\ inv[i].msg = "error: invalid JSON"
            /\ inv[i].after = inv[i].before
            /\ inv[i].written = {}
            /\ ~inv[i].edited
            /\ source[inv[i].file].calls = << >>

\* An add-key on a file of project A ended on the invalid A/out/en.json.
C7_Witness ==
    \E i \in Invocations :
        /\ BaseFileWasInvalid(inv[i])
        /\ inv[i].pc = "done"
        /\ inv[i].file = FileAB
        /\ inv[i].text = "new"

\* C8: an add-key on a file for which no key path prefix can be derived ends
\* without having created or written any locale directory or file and
\* without editing the source.
C8_NoPrefixChangesNothing ==
    \A i \in Invocations :
        inv[i].outcome = "noPrefix" =>
            /\ inv[i].after = inv[i].before
            /\ inv[i].written = {}
            /\ ~inv[i].edited

-----------------------------------------------------------------------------
(* Claims about the command in a session over two projects, checked under  *)
(* SpecProjects.                                                           *)

\* resolve(fullKeyPath, baseLang, baseLang) in the context of the directory
\* the command just wrote, as decorateEditor would look it up now.
ResolvedAfterWrite ==
    LET dir == justWrote.path.dir
        cache1 == getOrCreateProjectContext(projectContextCache, files, dirs, dir)
    IN  getTranslationForProject(cache1[dir], files, justWrote.key,
                                 justWrote.path.lang)

\* C2: right after the command wrote the base-language file, resolving the
\* returned key path against the language written returns the new text.
C2_RoundTripAfterWrite ==
    justWrote.path # NoPath => ResolvedAfterWrite = justWrote.text

\* C9: whatever the command writes for a file whose project has a CLI config
\* entry is <outputDir>/<baseLanguage>.json of that project.
C9_WritesIntoTheProjectOfTheFile ==
    \A i \in Invocations :
        LET h == inv[i]
            config == loadCliProjectConfig(h.root)
        IN  (h.root # NoFolder /\ config # NoConfig) =>
                h.written \subseteq
                    {LocalePath(ResolveDir(h.root, config.outputDir),
                                config.baseLanguage)}

-----------------------------------------------------------------------------
(* Claims about the caches and the watcher, checked under SpecCache.       *)

\* Every document of the per-project context of dir is the one on disk.
ContextFresh(dir) ==
    dir \in DOMAIN projectContextCache =>
        \A lang \in DOMAIN projectContextCache[dir].localeData :
            Json(projectContextCache[dir].localeData[lang]) = files[dir][lang]

\* Every document of the global cache is the one of the watched directory.
GlobalCacheFresh ==
    \A lang \in DOMAIN localeCache :
        Json(localeCache[lang]) = files[localeWatcher][lang]

-----------------------------------------------------------------------------
(***************************************************************************)
(* The resolvers (SpecResolve).                                            *)
(***************************************************************************)

\* The last call of getValueByPathLoose: the document walked, the segments of
\* the key, the node the segments before the last lead to, the last segment.
LooseCall == lookup.done /\ lookup.entry = "loose"

LooseDoc == lookup.loaded[lookup.preferred]

LooseParts == SplitFilter(lookup.keyPath)

LooseParent == SubSeq(LooseParts, 1, Len(LooseParts) - 1)

ParentIsObject == LooseParent = << >> \/ IsObject(LooseDoc, LooseParent)

\* C11: a key path that names an object node with a string-valued child
\* under a 4-digit key resolves to the value of such a child.
C11_ObjectNodeResolvesToNumericChild ==
    (/\ LooseCall
     /\ IsObject(LooseDoc, LooseParts)
     /\ NumericStringKeys(LooseDoc, LooseParts) # {})
    => lookup.value \in {LooseDoc[Append(LooseParts, k)] :
                            k \in NumericStringKeys(LooseDoc, LooseParts)}

\* C12: a key path whose last segment is a 4-digit id that the node reached
\* does not have resolves to not-found, whatever other 4-digit children the
\* node has.
AbsentNumericLeafRequested ==
    /\ LooseCall
    /\ LooseParts # << >>
    /\ IsNumericLeafKey(Last(LooseParts))
    /\ ParentIsObject
    /\ ~Has(LooseDoc, LooseParts)

C12_AbsentNumericLeafIsNotFound ==
    AbsentNumericLeafRequested => lookup.value = NotFound

C12_Witness ==
    /\ AbsentNumericLeafRequested
    /\ NumericStringKeys(LooseDoc, LooseParent) # {}
    /\ lookup.value = NotFound

\* The last call of a resolver entry point, and what either match finds in
\* the document loaded for a language: the exact match, else the loose one.
ResolverCall == lookup.done /\ lookup.entry \in {"project", "global"}

HitIn(l) ==
    IF l \notin DOMAIN lookup.loaded THEN NotFound
    ELSE IF getValueByPath(lookup.loaded[l], lookup.keyPath) # NotFound
         THEN getValueByPath(lookup.loaded[l], lookup.keyPath)
         ELSE getValueByPathLoose(lookup.loaded[l], lookup.keyPath)

OtherHits ==
    {HitIn(l) : l \in DOMAIN lookup.loaded \ {lookup.preferred, lookup.base}}
        \ {NotFound}

\* C19: either resolver returns the hit of the preferred language, else the
\* hit of the base language, else a hit of another loaded language, and
\* not-found only when no loaded language has the key.
C19_PreferredThenBaseThenAnyLoaded ==
    ResolverCall =>
        IF HitIn(lookup.preferred) # NotFound
        THEN lookup.value = HitIn(lookup.preferred)
        ELSE IF HitIn(lookup.base) # NotFound
        THEN lookup.value = HitIn(lookup.base)
        ELSE IF OtherHits # {} THEN lookup.value \in OtherHits
        ELSE lookup.value = NotFound

\* C20: the loose match, taken when the last segment is no 4-digit id and
\* no property of the node reached, returns a value only when that node has
\* exactly one string-valued 4-digit property.
LooseMatchTaken ==
    /\ LooseCall
    /\ LooseParts # << >>
    /\ ~IsNumericLeafKey(Last(LooseParts))
    /\ ParentIsObject
    /\ ~Has(LooseDoc, LooseParts)

C20_LooseMatchNeedsASingleNumericLeaf ==
    (LooseMatchTaken /\ lookup.value # NotFound)
    => Cardinality(NumericStringKeys(LooseDoc, LooseParent)) = 1

-----------------------------------------------------------------------------
(***************************************************************************)
(* The sync tracking (SpecSync).                                           *)
(***************************************************************************)

\* The last call of checkSyncStatus found the snapshot holding key k with the
\* hash of v1 and the base document holding the other string v2 at k.
ValueChanged(k, v1, v2) ==
    /\ sync.done
    /\ sync.base.kind = "json"
    /\ k \in DOMAIN sync.stored
    /\ sync.stored[k] = generateKeyHash(v1)
    /\ IsString(sync.base.doc, k)
    /\ sync.base.doc[k] = v2
    /\ v1 # v2

SyncKeys == {<<"a", "b">>, <<"c">>, <<"d">>}

\* C13: a key whose value is another string than the one the snapshot took
\* the hash of is reported as modified, and as neither new nor removed,
\* whatever the two strings are.
C13_ChangedValueIsModified ==
    \A k \in SyncKeys, v1 \in SyncTexts, v2 \in SyncTexts :
        ValueChanged(k, v1, v2) =>
            /\ k \in sync.status.modifiedKeys
            /\ k \notin sync.status.newKeys
            /\ k \notin sync.status.removedKeys

\* C13, amended: such a key is reported as modified exactly when the hashes
\* of the two strings differ, and never as new or removed.
C13_ModifiedIffHashesDiffer ==
    \A k \in SyncKeys, v1 \in SyncTexts, v2 \in SyncTexts :
        ValueChanged(k, v1, v2) =>
            /\ k \in sync.status.modifiedKeys
                    <=> generateKeyHash(v1) # generateKeyHash(v2)
            /\ k \notin sync.status.newKeys
            /\ k \notin sync.status.removedKeys

C13_Witness ==
    \E k \in SyncKeys, v1 \in SyncTexts, v2 \in SyncTexts :
        /\ ValueChanged(k, v1, v2)
        /\ generateKeyHash(v1) # generateKeyHash(v2)
        /\ k \in sync.status.modifiedKeys

\* The last call of checkSyncStatus read both files and compared the maps.
Compared == sync.done /\ sync.base.kind = "json" /\ sync.snapshot.kind = "json"

\* C14: modifiedKeys are the keys of both maps with differing hashes,
\* newKeys the keys of the current map only, removedKeys the keys of the
\* stored map only, no key is in two lists, and inSync says that the three
\* lists are empty.
C14_KeysClassified ==
    Compared =>
        LET st == sync.status
            both == DOMAIN sync.current \cap DOMAIN sync.stored
        IN  /\ ~st.null
            /\ st.modifiedKeys = {k \in both : sync.current[k] # sync.stored[k]}
            /\ st.newKeys = DOMAIN sync.current \ DOMAIN sync.stored
            /\ st.removedKeys = DOMAIN sync.stored \ DOMAIN sync.current
            /\ st.modifiedKeys \cap st.newKeys = {}
            /\ st.modifiedKeys \cap st.removedKeys = {}
            /\ st.newKeys \cap st.removedKeys = {}
            /\ st.inSync <=> (st.modifiedKeys \cup st.newKeys \cup st.removedKeys = {})

C14_Witness ==
    /\ Compared
    /\ sync.status.modifiedKeys # {}
    /\ sync.status.newKeys # {}
    /\ sync.status.removedKeys # {}
    /\ ~sync.status.inSync

\* C15: with a base-language file that parses and no snapshot file,
\* checkSyncStatus returns inSync with three empty lists.
FirstRun == sync.done /\ sync.base.kind = "json" /\ sync.snapshot.kind = "absent"

-----------------------------------------------------------------------------
(***************************************************************************)
(* The example of the README (SpecExample).                                *)
(***************************************************************************)

\* The first add-key of the session has ended after its source edit was
\* applied.
ExampleAdded ==
    /\ inv[1].pc = "done"
    /\ inv[1].outcome = "added"
    /\ inv[1].edited
    /\ inv[1].file = FileCH
    /\ inv[1].text = ExampleText

\* C16: adding "Welcome to our app" from components/Header.vue to an empty
\* base document gives the key path components.header.<4 digits>, the base
\* document {components: {header: {<4 digits>: "Welcome to our app"}}} and
\* the call t('components.header.<4 digits>') in the source.
C16_ReadmeExample ==
    ExampleAdded =>
        \E id \in Ids :
            LET fullKeyPath == <<"components", "header", id>>
            IN  /\ inv[1].key = fullKeyPath
                /\ inv[1].after.files[inv[1].path.dir][inv[1].path.lang]
                        = Json(DocOf(fullKeyPath :> ExampleText))
                /\ source[FileCH].calls[1] = fullKeyPath

(***************************************************************************)
(* The normalization of the selection and the generated call               *)
(* (SpecNormalize).                                                        *)
(***************************************************************************)

TotalSelection == <<"'", "T", "o", "t", "a", "l", ":", " ", "'", " ", "+", " ", "t", "o", "t", "a", "l", ".", "t", "o", "F", "i", "x", "e", "d", "(", "2", ")">>

TotalNormalized == norm.done /\ norm.rawText = TotalSelection

\* C17: normalizing the selection 'Total: ' + total.toFixed(2) takes the
\* concatenation path and yields the text "Total: {total}" with exactly one
\* parameter, of kind number, whose source expression is total.toFixed(2).
C17_TotalToFixedIsNamedTotal ==
    TotalNormalized =>
        /\ norm.result = Cleaned(parseStringConcatenation(norm.rawText))
        /\ norm.result.normalizedText = <<"T", "o", "t", "a", "l", ":", " ", "{", "t", "o", "t", "a", "l", "}">>
        /\ Len(norm.result.params) = 1
        /\ norm.result.params[1].type = "number"
        /\ norm.result.params[1].expression = <<"t", "o", "t", "a", "l", ".", "t", "o", "F", "i", "x", "e", "d", "(", "2", ")">>

\* The object literal the call is expected to carry: the parameters from
\* the i-th on, in order, each in shorthand when its name is its source
\* expression and as name: expression otherwise.
RECURSIVE ExpectedEntries(_, _)
ExpectedEntries(params, i) ==
    LET p == params[i]
        entry == IF p.paramName = p.expression THEN p.paramName
                 ELSE p.paramName \o <<":", " ">> \o p.expression
    IN  IF i = Len(params) THEN entry
        ELSE entry \o <<",", " ">> \o ExpectedEntries(params, i + 1)

\* C18: the generated call is t('<key>') when the normalization result has
\* no parameters, and otherwise t('<key>', { ... }) whose object literal
\* lists the parameters in order, each in shorthand when its name equals
\* its source expression verbatim and as name: expression otherwise.
C18_CallListsParametersInOrder ==
    norm.generated =>
        norm.expr =
            IF Len(norm.result.params) = 0
            THEN <<"t", "(", "'">> \o norm.keyPath \o <<"'", ")">>
            ELSE <<"t", "(", "'">> \o norm.keyPath \o <<"'", ",", " ", "{", " ">>
                    \o ExpectedEntries(norm.result.params, 1) \o <<" ", "}", ")">>

\* A call was generated with a parameter in shorthand followed by one that
\* is written out.
C18_Witness ==
    /\ norm.generated
    /\ Len(norm.result.params) = 2
    /\ norm.result.params[1].paramName = norm.result.params[1].expression
    /\ norm.result.params[2].paramName # norm.result.params[2].expression
    /\ norm.expr = <<"t", "(", "'", "a", ".", "0", "0", "0", "1", "'", ",", " ", "{", " ", "t", "o", "t", "a", "l", ",", " ", "n", "a", "m", "e", ":", " ", "u", "s", "e", "r", ".", "n", "a", "m", "e", " ", "}", ")">>

(***************************************************************************)
(* The loops of nextGlobalLeafKey (SpecMint).                              *)
(***************************************************************************)

Returned == mint.phase = "returned"

SomeUnused == mint.used # Ids

\* C21: minting a leaf key never hangs: nextGlobalLeafKey returns for every
\* set of used ids, also when the random draws and the linear scan both
\* fail and the last-resort loop is entered.
C21_MintingTerminates == <>Returned

\* The first id of the scan order that is not used.
SmallestUnused ==
    IdName[CHOOSE i \in 1..NumIds :
                /\ IdName[i] \notin mint.used
                /\ \A j \in 1..(i - 1) : IdName[j] \in mint.used]

\* With an id unused the run stays within the random draws and one pass of
\* the scan, and what it returns is unused, the smallest unused id when
\* every draw collided.
BoundedMint ==
    SomeUnused =>
        /\ mint.phase # "retry"
        /\ Len(mint.draws) <= MaxTries
        /\ mint.i < NumIds
        /\ Returned =>
            /\ mint.k \notin mint.used
            /\ mint.tries = MaxTries => mint.k = SmallestUnused

\* C22: whenever an id is unused, nextGlobalLeafKey returns after at most
\* MaxTries random draws and at most one linear scan, whatever the draws
\* are, with an id that is not used; if every draw collided, with the
\* smallest unused id.
C22_UnusedIdIsReturned == [](BoundedMint /\ (SomeUnused => <>Returned))

\* Every draw collided and the scan returned an id other than the first.
C22_Witness ==
    /\ Returned
    /\ mint.tries = MaxTries
    /\ mint.i > 0
    /\ mint.k = SmallestUnused

(***************************************************************************)
(* The explicit reloads (SpecReload).                                      *)
(***************************************************************************)

\* No cache holds a document that differs from the file it was loaded from.
NoCachedDocumentIsStale ==
    /\ GlobalCacheFresh
    /\ \A dir \in LocaleDirs : ContextFresh(dir)

\* C23: each explicit reload, the command stringer.reloadLocales and the
\* message reloadLocales of the control panel, clears all cached locale
\* documents, the global cache and every per-project context: the reload
\* leaves no document that was loaded before it and differs from its file.
C23_ExplicitReloadLeavesNothingStale ==
    [][(ReloadCommand \/ PanelReload) => NoCachedDocumentIsStale']_vars

(***************************************************************************)
(* The lookups of the locales folder (SpecNearest).                        *)
(***************************************************************************)

\* C24: the locales folder resolved for a file is the one found by walking
\* up from that file toward its workspace root, whatever was looked up
\* before: findNearestLocalesFolder with its cache returns what the uncached
\* findLocalesFolderFromFile returns for that file and root.
C24_CachedLookupEqualsWalkUp ==
    nearest.done =>
        nearest.found = findLocalesFolderFromFileIn(nearest.win32, nearest.localeDirs,
                                                    nearest.filePath,
                                                    nearest.workspaceRoot)

\* C25: every add-key action that starts eventually clears the busy flag
\* (on success, on each early return and when a step throws), as long as
\* each awaited host call returns.
C25_BusyFlagIsEventuallyCleared == isProcessingCommand ~> ~isProcessingCommand

\* The base language the per-project resolver takes for a locales directory
\* once its caches have been cleared and the directory is read again.
ResolverBaseLanguage(dir) ==
    getOrCreateProjectContext(<< >>, files, dirs, dir)[dir].baseLanguage

\* C26: the base language whose file add-key has just written the new key
\* into is the base language the resolver takes for that locales directory
\* after a refresh, and the one the global project context (the sync
\* watcher's) holds for it.
C26_WritesIntoTheResolversBaseLanguage ==
    justWrote # NothingWritten =>
        /\ ResolverBaseLanguage(justWrote.path.dir) = justWrote.path.lang
        /\ (projectContext # NoContext
              /\ projectContext.localesDir = justWrote.path.dir)
            => projectContext.baseLanguage = justWrote.path.lang

\* A change event shows a notification.
AlertShown == \E found \in Findings : ChangeEvent(found) /\ alert'.asking > alert.asking

\* C27: at most one out-of-sync notification is open at any time: a change
\* event shows none while one awaits the user's answer, nor before 60
\* seconds have passed since the last answer.
C27_OneAlertAtATime ==
    [][AlertShown =>
            /\ alert.asking = 0
            /\ alert'.asking = 1
            /\ alert.answered => alert.now - alert.answeredAt >= ReAlertDelay]_vars

\* A change event found the file out of sync and the flag set and showed
\* nothing; later, the first notification answered and the delay over, a
\* second notification has been shown.
C27_Witness ==
    /\ alert.asking = 1
    /\ alert.answered
    /\ alert.suppressed > 0

\* The last add-key action inserted the declaration: the document differs
\* from the text that ensureVueTDeclaration read.
DeclarationInserted == vue.adds > 0 /\ vue.text # vue.asked

\* C28 as stated: after any sequence of add-key actions on a Vue file the
\* extension has inserted const { t } = useI18n() at most once.
C28_DeclarationInsertedAtMostOnce == vue.inserted <= 1

\* C28, amended: the declaration is inserted only into a document that has
\* none, the document then holds exactly one, and ensureVueTDeclaration
\* applied to its own output changes nothing; a further insertion happens
\* only after an add-key action has replaced the declaration itself.
C28_InsertsOnlyWhenMissing ==
    DeclarationInserted =>
        /\ ~hasUseI18nTDeclaration(vue.asked)
        /\ Declarations(vue.text) = 1
        /\ ensureVueTDeclaration(vue.filePath, vue.text) = vue.text

\* The first add-key action inserted the declaration and the second, on a
\* document that holds it, inserted nothing.
C28_Witness ==
    /\ vue.adds = 2
    /\ vue.inserted = 1
    /\ vue.asked = vue.text
    /\ hasUseI18nTDeclaration(vue.text)

(***************************************************************************)
(* The parameter names of a normalization result (SpecNormalize).          *)
(***************************************************************************)

\* The n-th name tried for a base name: name, name1, name2, ...
Candidate(base, n) == IF n = 0 THEN base ELSE base \o Decimal(n)

\* The selection was normalized on the template-literal, the concatenation
\* or the mustache path.
OnNamingPath ==
    /\ norm.done
    /\ normalizationPath(norm.rawText, norm.context) \in {"template", "concat", "mustache"}

\* C29: in a normalization result of the template-literal, the concatenation
\* or the mustache path a parameter name stands for exactly one source
\* expression: two parameters have the same name exactly when they have the
\* same expression, and the name of an expression is the first of name,
\* name1, name2, ... that no other expression before it holds.
C29_OneNamePerExpression ==
    OnNamingPath =>
        LET ps == norm.result.params IN
        /\ \A i, j \in 1..Len(ps) :
                (ps[i].paramName = ps[j].paramName) <=> (ps[i].expression = ps[j].expression)
        /\ \A i \in 1..Len(ps) :
                /\ ps[i].paramName \in DOMAIN norm.result.originalParams
                /\ norm.result.originalParams[ps[i].paramName] = ps[i].expression
        /\ \A i \in 1..Len(ps) :
                LET base == extractParamName(ps[i].expression)
                    taken(n) == \E j \in 1..(i - 1) :
                                    /\ ps[j].paramName = Candidate(base, n)
                                    /\ ps[j].expression # ps[i].expression
                IN  \E n \in 0..Len(ps) :
                        /\ ps[i].paramName = Candidate(base, n)
                        /\ ~taken(n)
                        /\ \A m \in 0..(n - 1) : taken(m)

\* On the mustache path three expressions with the base name `name` were
\* named name, name1 and name2, and the repeated one kept its name.
C29_Witness ==
    /\ norm.done
    /\ normalizationPath(norm.rawText, norm.context) = "mustache"
    /\ Len(norm.result.params) = 4
    /\ norm.result.params[1].paramName = <<"n", "a", "m", "e">>
    /\ norm.result.params[2].paramName = <<"n", "a", "m", "e", "1">>
    /\ norm.result.params[3].paramName = <<"n", "a", "m", "e">>
    /\ norm.result.params[4].paramName = <<"n", "a", "m", "e", "2">>

(***************************************************************************)
(* The hash of a string (SpecHash).                                        *)
(***************************************************************************)

\* The reference hash of the first n code units: h0 = 5381 and
\* h(i+1) = ((h(i) * 33) XOR codeUnit(v, i)) mod 2^32, as an unsigned integer.
ReferenceHash(codes, n) ==
    djb2(SubSeq(codes, 1, n), 1, [hi |-> 5381 \div Half, lo |-> 5381 % Half])

\* C30: generateKeyHash(v) is the 32-bit reference hash of v rendered as
\* exactly 8 lowercase hexadecimal digits of the unsigned result; after
\* every iteration hash is the reference hash of the prefix modulo 2^32, and
\* no product is inexact.
C30_HashIsTheReferenceHash ==
    /\ hashing.exact
    /\ ToUint32(hashing.hash) = ReferenceHash(hashing.value, hashing.i)
    /\ hashing.done =>
        /\ hashing.out = Hex8(ReferenceHash(hashing.value, Len(hashing.value)))
        /\ Len(hashing.out) = 8
        /\ \A k \in 1..Len(hashing.out) :
                \E d \in 1..Len(HexDigit) : hashing.out[k] = HexDigit[d]

\* A hash was returned after a product had wrapped around, from a negative
\* int32.
C30_Witness ==
    /\ hashing.done
    /\ hashing.wrapped
    /\ hashing.hash.hi < 0
    /\ Len(hashing.value) >= 5

====
